---- MODULE Spec2Model ----
(***************************************************************************)
(* Model of the simulation core of carlosperfil/pacman: the maze/collision *)
(* service (src/src/map.py), the entities (src/src/game_objects.py), the   *)
(* A* engine (src/src/utils.py) and the round controller Game.update       *)
(* (src/main.py).                                                          *)
(*                                                                         *)
(* Units.  Positions and speeds are real numbers in the program; every     *)
(* value that occurs is a multiple of a quarter pixel (speeds 2, 1.5 and   *)
(* 1, cell centres, the flanker's midpoint), so the model keeps lengths as *)
(* integers counted in quarter pixels: Px(n) is n pixels.  Times are       *)
(* integers in milliseconds (delta_time * 1000 of the program).            *)
(* Probabilities are integers in percent; a draw of random.random() is an  *)
(* integer d in 0..99 standing for the real d/100.                          *)
(***************************************************************************)
EXTENDS Integers, Naturals, Sequences, FiniteSets, TLC

VARIABLES
    gstate,          \* Game._state
    availableMaps,   \* Game._available_maps (the map files of the campaign)
    mapIndex,        \* Game._current_map_index
    campaignTotal,   \* Game._campaign_total_score
    map,             \* Game._map (Map object: layout, cell size, metadata, spawns)
    player,          \* Game._player
    ghosts,          \* Game._ghosts, in the order of ghost_configs
    pellets,         \* Game._pellets
    inputActive,     \* Game._input_active
    showSave,        \* Game._show_save_confirmation
    log,             \* what the last Game.update did (observation only, never read by the program)
    ticks            \* ticks of active play counted against MaxTicks (observation only)

vars == <<gstate, availableMaps, mapIndex, campaignTotal, map, player, ghosts,
          pellets, inputActive, showSave, log, ticks>>

----------------------------------------------------------------------------
(* Bounds of the exploration *)

\* timers that the program lets grow without limit are only ever compared
\* with thresholds below this value; the model saturates them here
TimerCap == 3001

----------------------------------------------------------------------------
(* Geometry kernel: Vector2D, Direction *)

Px(n) == 4 * n

HalfPx(n) == 2 * n

Abs(x) == IF x < 0 THEN -x ELSE x

Min2(a, b) == IF a < b THEN a ELSE b

Max2(a, b) == IF a > b THEN a ELSE b

Directions == {"UP", "DOWN", "LEFT", "RIGHT", "NONE"}

\* Direction.value
DirVec(d) ==
    CASE d = "UP" -> <<0, -1>>
      [] d = "DOWN" -> <<0, 1>>
      [] d = "LEFT" -> <<-1, 0>>
      [] d = "RIGHT" -> <<1, 0>>
      [] OTHER -> <<0, 0>>

\* squared Euclidean distance; distance_to(a, b) < r is DistSq(a, b) < r * r
DistSq(a, b) == (a[1] - b[1]) * (a[1] - b[1]) + (a[2] - b[2]) * (a[2] - b[2])

\* Vector2D.distance_to(other) < r, r in quarter pixels
CloserThan(a, b, r) == DistSq(a, b) < r * r

\* Vector2D.distance_to(other) > r
FartherThan(a, b, r) == DistSq(a, b) > r * r

\* Vector2D.manhattan_distance_to
manhattan_distance_to(a, b) == Abs(a[1] - b[1]) + Abs(a[2] - b[2])

----------------------------------------------------------------------------
(* Maze / collision service: Map *)

\* sprite_manager.base_sprite_size, in pixels
base_sprite_size == 16

EMPTY == 0
WALL == 1
PELLET == 2
POWER_UP == 3

MapHeight(m) == Len(m.layout)

MapWidth(m) == IF Len(m.layout) > 0 THEN Len(m.layout[1]) ELSE 0

\* grid coordinate (0-based, as in the program) of a coordinate in quarter pixels
CellOf(m, c) == c \div Px(m.cell_size)

\* the cell code at 0-based (row, col) of an in-bounds cell
CellAt(m, row, col) == m.layout[row + 1][col + 1]

InBounds(m, row, col) == row >= 0 /\ row < MapHeight(m) /\ col >= 0 /\ col < MapWidth(m)

\* Map.is_wall
is_wall(m, pos) ==
    LET col == CellOf(m, pos[1])
        row == CellOf(m, pos[2])
    IN  IF ~InBounds(m, row, col) THEN TRUE
        ELSE CellAt(m, row, col) = WALL

\* the clearance half-extent of Map.is_valid_position:
\* object_size // 2.125 for the player, object_size // 3 otherwise
half_size(object_size, kind) ==
    IF kind = "player" THEN Px((object_size * 8) \div 17)
    ELSE Px(object_size \div 3)

\* Map.is_valid_position
is_valid_position(m, pos, object_size, kind) ==
    LET h == half_size(object_size, kind)
        corners == << <<pos[1] - h, pos[2] - h>>, <<pos[1] + h, pos[2] - h>>,
                      <<pos[1] - h, pos[2] + h>>, <<pos[1] + h, pos[2] + h>> >>
    IN  \A i \in 1..4 : ~is_wall(m, corners[i])

\* Map.is_wall raises IndexError: the cell lies within width and height and
\* its row has no element at the column
is_wall_raises(m, pos) ==
    /\ InBounds(m, CellOf(m, pos[2]), CellOf(m, pos[1]))
    /\ CellOf(m, pos[1]) >= Len(m.layout[CellOf(m, pos[2]) + 1])

\* the outcome of a call of Map.is_wall: the value returned or the exception raised
is_wall_outcome(m, pos) ==
    IF is_wall_raises(m, pos) THEN "IndexError"
    ELSE IF is_wall(m, pos) THEN "True" ELSE "False"

\* the corners list of Map.is_valid_position
corners(pos, h) ==
    << <<pos[1] - h, pos[2] - h>>, <<pos[1] + h, pos[2] - h>>,
       <<pos[1] - h, pos[2] + h>>, <<pos[1] + h, pos[2] + h>> >>

\* the loop over the corners of Map.is_valid_position, corners i..4
RECURSIVE corners_outcome(_, _, _)
corners_outcome(m, cs, i) ==
    IF i > 4 THEN "True"
    ELSE IF is_wall_raises(m, cs[i]) THEN "IndexError"
    ELSE IF is_wall(m, cs[i]) THEN "False"
    ELSE corners_outcome(m, cs, i + 1)

\* the outcome of a call of Map.is_valid_position
is_valid_position_outcome(m, pos, object_size, kind) ==
    corners_outcome(m, corners(pos, half_size(object_size, kind)), 1)

\* a remove_pellet_at that leaves power-ups in the grid
remove_pellet_at_pellets_only(m, pos) ==
    LET col == CellOf(m, pos[1])
        row == CellOf(m, pos[2])
    IN  IF InBounds(m, row, col) /\ CellAt(m, row, col) = PELLET
        THEN [m EXCEPT !.layout[row + 1][col + 1] = EMPTY]
        ELSE m

\* a remove_pellet_at that leaves the grid as it was
remove_pellet_at_nowhere(m, pos) == m

\* Map.remove_pellet_at: the layout after the call
remove_pellet_at(m, pos) ==
    LET col == CellOf(m, pos[1])
        row == CellOf(m, pos[2])
    IN  IF InBounds(m, row, col) /\ CellAt(m, row, col) \in {PELLET, POWER_UP}
        THEN [m EXCEPT !.layout[row + 1][col + 1] = EMPTY]
        ELSE m

\* Map.remove_pellet_at: the value returned
remove_pellet_at_result(m, pos) ==
    LET col == CellOf(m, pos[1])
        row == CellOf(m, pos[2])
    IN  InBounds(m, row, col) /\ CellAt(m, row, col) \in {PELLET, POWER_UP}

\* centre of the 0-based grid cell (col, row):  idx * cell_size + cell_size // 2
CellCentre(m, col, row) ==
    << Px(col * m.cell_size + m.cell_size \div 2),
       Px(row * m.cell_size + m.cell_size \div 2) >>

\* the pellets of one row, columns from col on, in column order
RECURSIVE RowPellets(_, _, _)
RowPellets(m, row, col) ==
    IF col >= Len(m.layout[row + 1]) THEN << >>
    ELSE LET cell == m.layout[row + 1][col + 1]
             here == IF cell = PELLET
                     THEN << [position |-> CellCentre(m, col, row), type |-> "normal", value |-> 10] >>
                     ELSE IF cell = POWER_UP
                     THEN << [position |-> CellCentre(m, col, row), type |-> "power_up", value |-> 50] >>
                     ELSE << >>
         IN  here \o RowPellets(m, row, col + 1)

RECURSIVE PelletsFrom(_, _)
PelletsFrom(m, row) ==
    IF row >= MapHeight(m) THEN << >>
    ELSE RowPellets(m, row, 0) \o PelletsFrom(m, row + 1)

\* Map.get_pellets: the pellets of the layout in row-major order
get_pellets(m) == PelletsFrom(m, 0)

RECURSIVE CountRow(_, _)
CountRow(r, i) ==
    IF i > Len(r) THEN 0
    ELSE (IF r[i] \in {PELLET, POWER_UP} THEN 1 ELSE 0) + CountRow(r, i + 1)

RECURSIVE CountFrom(_, _)
CountFrom(m, i) ==
    IF i > Len(m.layout) THEN 0 ELSE CountRow(m.layout[i], 1) + CountFrom(m, i + 1)

\* Map.count_pellets
count_pellets(m) == CountFrom(m, 1)

SpawnNames == {"player", "ghost_red", "ghost_pink", "ghost_cyan", "ghost_orange"}

\* Map.get_spawn_position
get_spawn_position(m, name) ==
    IF name \in DOMAIN m.spawn_positions THEN m.spawn_positions[name]
    ELSE << Px(m.cell_size), Px(m.cell_size) >>

\* Map._set_default_spawn_positions
default_spawn_positions(cell) ==
    [n \in SpawnNames |->
        CASE n = "player" -> << Px(1 * cell + cell \div 2), Px(1 * cell + cell \div 2) >>
          [] n = "ghost_red" -> << Px(17 * cell + cell \div 2), Px(9 * cell + cell \div 2) >>
          [] n = "ghost_pink" -> << Px(18 * cell + cell \div 2), Px(9 * cell + cell \div 2) >>
          [] n = "ghost_cyan" -> << Px(17 * cell + cell \div 2), Px(10 * cell + cell \div 2) >>
          [] OTHER -> << Px(18 * cell + cell \div 2), Px(10 * cell + cell \div 2) >>]

\* Map._load_spawn_positions: grid coordinates of the file to pixel space
load_spawn_positions(spawn_data, cell) ==
    IF DOMAIN spawn_data = {} THEN default_spawn_positions(cell)
    ELSE [n \in DOMAIN spawn_data |->
            << Px(spawn_data[n][1] * cell + cell \div 2),
               Px(spawn_data[n][2] * cell + cell \div 2) >>]

\* the cell size a Map has after loading a file: the metadata's cell_size
\* when it gives one, the size set by Map.__init__ otherwise
file_cell_size(file) ==
    IF "cell_size" \in DOMAIN file THEN file.cell_size ELSE base_sprite_size

\* Map.load_from_json on a file that passes _validate_map_json: the Map
\* object (difficulty is what the property Map.difficulty returns,
\* metadata.get('difficulty', 50))
load_from_json(file) ==
    [layout |-> file.layout,
     cell_size |-> file_cell_size(file),
     difficulty |-> IF "difficulty" \in DOMAIN file THEN file.difficulty ELSE 50,
     spawn_positions |-> load_spawn_positions(file.spawn_positions, file_cell_size(file)),
     original_map_path |-> file]

----------------------------------------------------------------------------
(* Entity movement model: MovableObject, Player *)

\* a can_move that does not look at the maze
can_move_unchecked(pos, speed, direction, m, entity_type) == direction /= "NONE"

\* MovableObject.can_move for an entity at pos with the given speed
can_move(pos, speed, direction, m, entity_type) ==
    IF direction = "NONE" THEN FALSE
    ELSE is_valid_position(m,
            << pos[1] + DirVec(direction)[1] * speed, pos[2] + DirVec(direction)[2] * speed >>,
            base_sprite_size, entity_type)

\* MovableObject.move: the position after one step
move(pos, speed, direction) ==
    IF direction /= "NONE"
    THEN << pos[1] + DirVec(direction)[1] * speed, pos[2] + DirVec(direction)[2] * speed >>
    ELSE pos

PlayerSpeed == HalfPx(4)

PlayerLives == 20

PowerUpDuration == 5000

\* a Player constructed with a score already on it
NewPlayer_scored(pos) ==
    [position |-> pos, direction |-> "NONE", next_direction |-> "NONE", speed |-> PlayerSpeed,
     lives |-> PlayerLives, score |-> 100, power_up_active |-> FALSE, power_up_timer |-> 0]

\* Player.__init__ as called by Game._initialize_game
NewPlayer(pos) ==
    [position |-> pos, direction |-> "NONE", next_direction |-> "NONE",
     speed |-> PlayerSpeed, lives |-> PlayerLives, score |-> 0,
     power_up_active |-> FALSE, power_up_timer |-> 0]

\* MovableObject.direction setter with a Direction member
set_direction(p, d) == [p EXCEPT !.next_direction = d]

\* the Direction member whose value is the tuple items
DirectionOf(items) == CHOOSE d \in Directions : DirVec(d) = items

\* MovableObject.direction setter, what the assignment does: "set", or the
\* error it raises.  A value is a record: kind "Direction" with the member,
\* kind "tuple" with the items, or the kind of another type.
direction_setter_outcome(value) ==
    IF value.kind = "Direction" THEN "set"
    ELSE IF value.kind = "tuple" /\ Len(value.items) = 2
    THEN IF \E d \in Directions : DirVec(d) = value.items THEN "set" ELSE "ValueError"
    ELSE "TypeError"

\* a direction setter that takes a value it cannot read as Direction.NONE
direction_setter_lenient(p, value) ==
    IF value.kind = "Direction" THEN set_direction(p, value.member)
    ELSE IF value.kind = "tuple" /\ Len(value.items) = 2
            /\ \E d \in Directions : DirVec(d) = value.items
    THEN set_direction(p, DirectionOf(value.items))
    ELSE set_direction(p, "NONE")

\* MovableObject.direction setter: the entity after the assignment
direction_setter(p, value) ==
    IF value.kind = "Direction" THEN set_direction(p, value.member)
    ELSE IF value.kind = "tuple" /\ Len(value.items) = 2
            /\ \E d \in Directions : DirVec(d) = value.items
    THEN set_direction(p, DirectionOf(value.items))
    ELSE p

\* an eat_pellet that awards the points twice
eat_pellet_twice(p, pellet_value) == [p EXCEPT !.score = p.score + 2 * pellet_value]

\* Player.eat_pellet
eat_pellet(p, pellet_value) == [p EXCEPT !.score = p.score + pellet_value]

\* Player.activate_power_up
activate_power_up(p) ==
    [p EXCEPT !.power_up_active = TRUE, !.power_up_timer = PowerUpDuration]

\* a lose_life without the clamp at 0
lose_life_unclamped(p) == [p EXCEPT !.lives = p.lives - 1]

\* Player.lose_life
lose_life(p) ==
    LET l == p.lives - 1
    IN  [p EXCEPT !.lives = IF l < 0 THEN 0 ELSE l]

\* Player.update, first part: the power-up timer
PlayerPowerTimer(p, delta) ==
    IF p.power_up_active
    THEN IF p.power_up_timer - delta <= 0
         THEN [p EXCEPT !.power_up_active = FALSE, !.power_up_timer = 0]
         ELSE [p EXCEPT !.power_up_timer = p.power_up_timer - delta]
    ELSE p

\* a Player.update that never commits the queued turn
PlayerTurn_never(p, m) == p

\* Player.update, second part: commit the queued turn when it is free
PlayerTurn(p, m) ==
    IF p.next_direction /= p.direction
    THEN IF can_move(p.position, p.speed, p.next_direction, m, "player")
         THEN [p EXCEPT !.direction = p.next_direction]
         ELSE IF ~can_move(p.position, p.speed, p.direction, m, "player")
              THEN [p EXCEPT !.direction = "NONE"]
              ELSE p
    ELSE p

\* a Player.update that moves without asking can_move
PlayerAdvance_unchecked(p, m) ==
    [p EXCEPT !.position = move(p.position, p.speed, p.direction)]

\* Player.update, third part: advance, fall back to the queued turn, or stop
PlayerAdvance(p, m) ==
    IF can_move(p.position, p.speed, p.direction, m, "player")
    THEN [p EXCEPT !.position = move(p.position, p.speed, p.direction)]
    ELSE IF p.next_direction /= p.direction
            /\ can_move(p.position, p.speed, p.next_direction, m, "player")
         THEN [p EXCEPT !.direction = p.next_direction,
                        !.position = move(p.position, p.speed, p.next_direction)]
         ELSE [p EXCEPT !.direction = "NONE"]

\* Player.update (the animation counter is cosmetic and left out)
PlayerUpdate(p, delta, m) == PlayerAdvance(PlayerTurn(PlayerPowerTimer(p, delta), m), m)

----------------------------------------------------------------------------
(* Ghost behaviour engine: difficulty scaling *)

\* The program computes the difficulty scaling in double-precision floating
\* point and truncates with int(); the tables below hold the values it
\* yields for the integer difficulty levels -50..MaxLevel (a level
\* above MaxLevel scales as MaxLevel does: min(level / 100.0, 2.0)).
MaxLevel == 200

LevelIndex(level) == Min2(level, MaxLevel) + 51

AstarFrequencyTable ==
    <<
       2400, 2392, 2384, 2376, 2368, 2360, 2352, 2344, 2336, 2328, 2320, 2312,
       2304, 2296, 2288, 2280, 2272, 2264, 2256, 2248, 2240, 2232, 2224, 2216,
       2208, 2200, 2192, 2184, 2176, 2168, 2160, 2152, 2144, 2136, 2128, 2120,
       2112, 2104, 2096, 2088, 2080, 2072, 2064, 2056, 2048, 2040, 2032, 2024,
       2016, 2008, 2000, 1992, 1984, 1976, 1968, 1960, 1952, 1944, 1936, 1928,
       1920, 1912, 1904, 1896, 1888, 1880, 1872, 1863, 1856, 1847, 1839, 1832,
       1824, 1816, 1808, 1800, 1792, 1784, 1776, 1768, 1760, 1752, 1744, 1736,
       1728, 1720, 1712, 1704, 1696, 1688, 1680, 1672, 1664, 1656, 1648, 1640,
       1632, 1624, 1616, 1608, 1600, 1592, 1584, 1576, 1568, 1560, 1552, 1544,
       1536, 1528, 1520, 1512, 1504, 1496, 1488, 1480, 1472, 1464, 1456, 1448,
       1440, 1432, 1424, 1416, 1408, 1400, 1392, 1384, 1376, 1367, 1359, 1351,
       1343, 1335, 1327, 1319, 1311, 1303, 1295, 1287, 1279, 1271, 1263, 1255,
       1248, 1240, 1232, 1224, 1216, 1208, 1200, 1192, 1184, 1176, 1168, 1160,
       1152, 1144, 1136, 1128, 1119, 1111, 1103, 1096, 1088, 1080, 1072, 1064,
       1056, 1048, 1040, 1032, 1024, 1016, 1008, 1000, 992, 984, 976, 968,
       960, 952, 944, 936, 927, 919, 911, 903, 896, 888, 880, 872,
       864, 856, 848, 840, 832, 824, 816, 808, 799, 791, 783, 775,
       767, 759, 751, 743, 735, 727, 719, 711, 703, 696, 688, 679,
       671, 663, 655, 647, 639, 631, 623, 615, 607, 599, 591, 583,
       575, 567, 559, 551, 543, 535, 527, 519, 511, 503, 496, 488,
       480, 472, 463, 455, 447, 439, 431, 423, 415, 407, 399
    >>

VulnerableDurationTable ==
    <<
       11400, 11332, 11264, 11196, 11128, 11059, 10992, 10924, 10856, 10788, 10720, 10652,
       10584, 10516, 10448, 10379, 10312, 10244, 10176, 10108, 10040, 9972, 9904, 9836,
       9768, 9700, 9632, 9564, 9496, 9427, 9360, 9292, 9224, 9156, 9088, 9020,
       8952, 8884, 8816, 8748, 8680, 8612, 8544, 8476, 8408, 8340, 8272, 8204,
       8135, 8068, 8000, 7932, 7864, 7795, 7728, 7660, 7592, 7523, 7455, 7388,
       7319, 7251, 7183, 7116, 7047, 6980, 6912, 6844, 6776, 6708, 6640, 6572,
       6504, 6436, 6368, 6300, 6232, 6164, 6096, 6028, 5960, 5891, 5824, 5756,
       5688, 5619, 5552, 5484, 5416, 5347, 5280, 5212, 5144, 5076, 5008, 4940,
       4872, 4804, 4736, 4668, 4600, 4532, 4464, 4396, 4327, 4260, 4192, 4124,
       4055, 3988, 3920, 3852, 3784, 3716, 3647, 3580, 3511, 3444, 3375, 3308,
       3240, 3172, 3104, 3036, 2968, 2900, 2832, 2764, 2695, 2628, 2559, 2492,
       2424, 2356, 2288, 2219, 2152, 2083, 2016, 1947, 1880, 1811, 1744, 1675,
       1608, 1540, 1472, 1404, 1336, 1267, 1200, 1132, 1064, 1000, 1000, 1000,
       1000, 1000, 1000, 1000, 1000, 1000, 1000, 1000, 1000, 1000, 1000, 1000,
       1000, 1000, 1000, 1000, 1000, 1000, 1000, 1000, 1000, 1000, 1000, 1000,
       1000, 1000, 1000, 1000, 1000, 1000, 1000, 1000, 1000, 1000, 1000, 1000,
       1000, 1000, 1000, 1000, 1000, 1000, 1000, 1000, 1000, 1000, 1000, 1000,
       1000, 1000, 1000, 1000, 1000, 1000, 1000, 1000, 1000, 1000, 1000, 1000,
       1000, 1000, 1000, 1000, 1000, 1000, 1000, 1000, 1000, 1000, 1000, 1000,
       1000, 1000, 1000, 1000, 1000, 1000, 1000, 1000, 1000, 1000, 1000, 1000,
       1000, 1000, 1000, 1000, 1000, 1000, 1000, 1000, 1000, 1000, 1000
    >>

PatrolDurationTable ==
    <<
       12250, 12205, 12160, 12115, 12070, 12024, 11980, 11935, 11890, 11844, 11800, 11755,
       11710, 11665, 11620, 11575, 11530, 11485, 11440, 11395, 11350, 11305, 11260, 11215,
       11170, 11125, 11080, 11035, 10990, 10945, 10900, 10855, 10810, 10765, 10720, 10675,
       10630, 10585, 10540, 10495, 10450, 10405, 10360, 10315, 10270, 10225, 10180, 10135,
       10089, 10045, 10000, 9955, 9910, 9865, 9820, 9775, 9730, 9685, 9640, 9595,
       9550, 9504, 9460, 9415, 9370, 9325, 9280, 9235, 9190, 9145, 9100, 9055,
       9010, 8965, 8920, 8875, 8830, 8785, 8740, 8695, 8650, 8605, 8560, 8515,
       8470, 8425, 8380, 8334, 8290, 8244, 8200, 8155, 8110, 8065, 8020, 7975,
       7930, 7885, 7840, 7795, 7750, 7705, 7660, 7615, 7570, 7524, 7480, 7435,
       7389, 7345, 7300, 7255, 7209, 7165, 7120, 7075, 7029, 6985, 6939, 6895,
       6850, 6805, 6759, 6715, 6670, 6625, 6579, 6535, 6490, 6445, 6399, 6354,
       6310, 6264, 6220, 6174, 6130, 6084, 6040, 5994, 5950, 5904, 5860, 5814,
       5770, 5725, 5680, 5635, 5589, 5545, 5500, 5455, 5409, 5364, 5320, 5275,
       5229, 5184, 5140, 5095, 5049, 5004, 4959, 4915, 4870, 4825, 4779, 4735,
       4690, 4645, 4599, 4555, 4510, 4465, 4419, 4375, 4330, 4285, 4239, 4195,
       4150, 4105, 4059, 4014, 3970, 3924, 3879, 3834, 3790, 3745, 3700, 3654,
       3610, 3565, 3520, 3474, 3429, 3385, 3339, 3294, 3249, 3205, 3159, 3114,
       3069, 3025, 2979, 2934, 2889, 2845, 2799, 2754, 2709, 2665, 2620, 2575,
       2529, 2485, 2440, 2395, 2349, 2305, 2260, 2215, 2169, 2125, 2080, 2035,
       2000, 2000, 2000, 2000, 2000, 2000, 2000, 2000, 2000, 2000, 2000, 2000,
       2000, 2000, 2000, 2000, 2000, 2000, 2000, 2000, 2000, 2000, 2000
    >>

ChaseDurationTable ==
    <<
       9000, 9120, 9240, 9360, 9480, 9600, 9720, 9840, 9960, 10080, 10199, 10320,
       10440, 10560, 10680, 10800, 10920, 11040, 11160, 11280, 11400, 11520, 11640, 11760,
       11880, 12000, 12120, 12240, 12360, 12480, 12600, 12720, 12840, 12960, 13080, 13200,
       13320, 13440, 13560, 13680, 13800, 13920, 14040, 14160, 14280, 14400, 14520, 14640,
       14760, 14880, 15000, 15120, 15240, 15360, 15480, 15600, 15720, 15840, 15960, 16080,
       16200, 16320, 16440, 16559, 16680, 16800, 16920, 17040, 17160, 17280, 17400, 17520,
       17640, 17760, 17880, 18000, 18120, 18240, 18360, 18480, 18600, 18720, 18840, 18960,
       19080, 19200, 19319, 19440, 19559, 19680, 19799, 19919, 20039, 20159, 20279, 20399,
       20520, 20640, 20760, 20880, 21000, 21120, 21240, 21360, 21480, 21600, 21720, 21840,
       21960, 22080, 22200, 22320, 22440, 22560, 22680, 22800, 22920, 23040, 23160, 23280,
       23400, 23520, 23640, 23760, 23880, 24000, 24120, 24240, 24360, 24480, 24600, 24720,
       24840, 24960, 25080, 25200, 25320, 25440, 25560, 25680, 25800, 25920, 26040, 26160,
       26280, 26400, 26520, 26640, 26760, 26880, 27000, 27119, 27240, 27360, 27480, 27599,
       27720, 27840, 27960, 28080, 28200, 28320, 28440, 28560, 28680, 28800, 28920, 29040,
       29160, 29280, 29400, 29520, 29640, 29760, 29880, 30000, 30120, 30240, 30360, 30480,
       30600, 30720, 30840, 30960, 31080, 31200, 31320, 31440, 31560, 31680, 31800, 31920,
       32040, 32160, 32280, 32400, 32520, 32640, 32760, 32880, 33000, 33120, 33240, 33360,
       33480, 33600, 33720, 33840, 33960, 34080, 34200, 34320, 34440, 34560, 34680, 34800,
       34920, 35040, 35160, 35280, 35400, 35520, 35640, 35760, 35880, 36000, 36120, 36240,
       36360, 36480, 36600, 36720, 36840, 36960, 37080, 37200, 37320, 37440, 37560, 37679,
       37800, 37920, 38040, 38159, 38280, 38400, 38520, 38639, 38760, 38880, 39000
    >>

\* Ghost.set_difficulty: max(int(2000 * timing_factor), 200)
astar_frequency_of(level) == AstarFrequencyTable[LevelIndex(level)]

GhostTypes == <<"red", "pink", "cyan", "orange">>

GhostBaseSpeed == HalfPx(3)

SpawnDelayDuration == 5000

\* Ghost._get_patrol_route
patrol_route(ghost_type) ==
    CASE ghost_type = "red" ->
            << <<Px(280), Px(100)>>, <<Px(420), Px(130)>>, <<Px(480), Px(180)>>, <<Px(400), Px(220)>>,
               <<Px(280), Px(200)>>, <<Px(160), Px(220)>>, <<Px(80), Px(180)>>, <<Px(140), Px(130)>> >>
      [] ghost_type = "pink" ->
            << <<Px(180), Px(140)>>, <<Px(240), Px(120)>>, <<Px(320), Px(140)>>, <<Px(380), Px(180)>>,
               <<Px(320), Px(220)>>, <<Px(240), Px(240)>>, <<Px(180), Px(220)>>, <<Px(140), Px(180)>> >>
      [] ghost_type = "cyan" ->
            << <<Px(300), Px(260)>>, <<Px(450), Px(260)>>, <<Px(480), Px(300)>>, <<Px(480), Px(340)>>,
               <<Px(400), Px(350)>>, <<Px(280), Px(330)>>, <<Px(150), Px(320)>>, <<Px(120), Px(280)>> >>
      [] OTHER ->
            << <<Px(140), Px(160)>>, <<Px(220), Px(140)>>, <<Px(300), Px(180)>>, <<Px(380), Px(160)>>,
               <<Px(420), Px(220)>>, <<Px(340), Px(260)>>, <<Px(240), Px(240)>>, <<Px(160), Px(200)>> >>

\* the value None of Ghost._last_target
NoTarget == << >>

\* Ghost.__init__ as called by Game._initialize_game (speed 1.5)
NewGhost(ghost_type, pos) ==
    [position |-> pos, direction |-> "NONE", speed |-> GhostBaseSpeed,
     state |-> "normal", initial_position |-> pos, ghost_type |-> ghost_type,
     vulnerable_timer |-> 0, mode_timer |-> 0, current_mode |-> "patrol",
     path_finding_timer |-> 0, last_direction |-> "NONE",
     current_path |-> << >>, path_index |-> 0, recalculate_path_timer |-> 0,
     astar_frequency |-> 2000, last_target |-> NoTarget,
     patrol_index |-> 0, patrol_timer |-> 0,
     difficulty_level |-> 0,
     is_in_spawn_delay |-> FALSE, spawn_delay_timer |-> 0]

\* Ghost.set_difficulty (the multiplier is kept as the level it was computed from)
set_difficulty(g, level) ==
    [g EXCEPT !.difficulty_level = Min2(level, MaxLevel),
              !.speed = GhostBaseSpeed,
              !.astar_frequency = astar_frequency_of(level)]

\* Ghost.get_difficulty_adjusted_vulnerable_duration(8000)
get_difficulty_adjusted_vulnerable_duration(g) ==
    VulnerableDurationTable[LevelIndex(g.difficulty_level)]

\* mode timings that ignore the difficulty: the base values
mode_timing_unscaled(g) == [patrol |-> 10000, chase |-> 15000]

\* Ghost.get_difficulty_adjusted_mode_timing
get_difficulty_adjusted_mode_timing(g) ==
    [patrol |-> PatrolDurationTable[LevelIndex(g.difficulty_level)],
     chase |-> ChaseDurationTable[LevelIndex(g.difficulty_level)]]

\* a set_vulnerable that takes the base duration unadjusted
set_vulnerable_raw(g) ==
    [g EXCEPT !.state = "vulnerable", !.vulnerable_timer = 8000,
              !.speed = Max2(Px(1), g.speed - Px(1))]

\* a set_vulnerable that sends the ghost back to the start of its patrol phase
set_vulnerable_retreating(g) ==
    [g EXCEPT !.state = "vulnerable",
              !.vulnerable_timer = get_difficulty_adjusted_vulnerable_duration(g),
              !.speed = Max2(Px(1), g.speed - Px(1)),
              !.current_mode = "patrol", !.mode_timer = 0]

\* Ghost.set_vulnerable(8000): speed = max(1, speed - 1)
set_vulnerable(g) ==
    [g EXCEPT !.state = "vulnerable",
              !.vulnerable_timer = get_difficulty_adjusted_vulnerable_duration(g),
              !.speed = Max2(Px(1), g.speed - Px(1))]

\* Ghost.reset_position
reset_position(g) ==
    [g EXCEPT !.position = g.initial_position, !.state = "normal",
              !.speed = GhostBaseSpeed, !.vulnerable_timer = 0,
              !.current_mode = "patrol", !.mode_timer = 0,
              !.current_path = << >>, !.path_index = 0,
              !.recalculate_path_timer = 0, !.last_target = NoTarget,
              !.patrol_index = 0, !.patrol_timer = 0,
              !.is_in_spawn_delay = FALSE, !.spawn_delay_timer = 0]

\* a capture that sends the ghost home without the spawn delay
set_eaten_without_delay(g) == reset_position(g)

\* Ghost.set_eaten_with_delay
set_eaten_with_delay(g) ==
    [g EXCEPT !.position = g.initial_position, !.state = "normal",
              !.speed = GhostBaseSpeed, !.vulnerable_timer = 0,
              !.current_mode = "patrol", !.mode_timer = 0,
              !.current_path = << >>, !.path_index = 0,
              !.recalculate_path_timer = 0, !.last_target = NoTarget,
              !.patrol_index = 0, !.patrol_timer = 0,
              !.is_in_spawn_delay = TRUE, !.spawn_delay_timer = SpawnDelayDuration]

\* an update_mode that never leaves chase
update_mode_sticky(g, delta) ==
    IF g.current_mode = "patrol" /\ g.mode_timer + delta > get_difficulty_adjusted_mode_timing(g).patrol
    THEN [g EXCEPT !.current_mode = "chase", !.mode_timer = 0]
    ELSE [g EXCEPT !.mode_timer = g.mode_timer + delta]

\* Ghost.update_mode
update_mode(g, delta) ==
    LET t == g.mode_timer + delta
        d == get_difficulty_adjusted_mode_timing(g)
    IN  IF g.current_mode = "patrol"
        THEN IF t > d.patrol
             THEN [g EXCEPT !.current_mode = "chase", !.mode_timer = 0]
             ELSE [g EXCEPT !.mode_timer = t]
        ELSE IF t > d.chase
             THEN [g EXCEPT !.current_mode = "patrol", !.mode_timer = 0]
             ELSE [g EXCEPT !.mode_timer = t]

\* Ghost.get_current_patrol_target
get_current_patrol_target(g) ==
    LET route == patrol_route(g.ghost_type)
    IN  route[(g.patrol_index % Len(route)) + 1]

PatrolTolerance(ghost_type) ==
    CASE ghost_type = "red" -> Px(28)
      [] ghost_type = "pink" -> Px(35)
      [] ghost_type = "cyan" -> Px(30)
      [] OTHER -> Px(40)

\* Ghost.advance_patrol_waypoint
advance_patrol_waypoint(g) ==
    IF CloserThan(g.position, get_current_patrol_target(g), PatrolTolerance(g.ghost_type))
    THEN [g EXCEPT !.patrol_index = (g.patrol_index + 1) % Len(patrol_route(g.ghost_type))]
    ELSE g

\* the first ghost of type red in the list, or NoTarget when there is none
RedGhostPosition(gs) ==
    LET idx == {i \in 1..Len(gs) : gs[i].ghost_type = "red"}
    IN  IF idx = {} THEN NoTarget
        ELSE gs[CHOOSE i \in idx : \A j \in idx : i <= j].position

\* Ghost.get_target_position
get_target_position(g, player_position, player_direction, other_ghosts) ==
    LET v == DirVec(player_direction)
        ahead(n) == << player_position[1] + v[1] * Px(16) * n,
                       player_position[2] + v[2] * Px(16) * n >>
    IN  IF g.current_mode = "patrol" THEN get_current_patrol_target(g)
        ELSE IF g.ghost_type = "red" THEN player_position
        ELSE IF g.ghost_type = "pink" THEN ahead(4)
        ELSE IF g.ghost_type = "cyan" THEN
            LET red == RedGhostPosition(other_ghosts)
            IN  IF red = NoTarget THEN player_position
                ELSE << (ahead(2)[1] + red[1]) \div 2, (ahead(2)[2] + red[2]) \div 2 >>
        ELSE IF FartherThan(g.position, player_position, Px(80)) THEN player_position
        ELSE << Px(50), Px(450) >>

----------------------------------------------------------------------------
(* Pathfinding engine: AStar, with the binary heap of Python's heapq *)

\* a heuristic that overrates the way left: three times the Manhattan distance
heuristic_overrated(pos1, pos2, heuristic_type) ==
    [whole |-> 3 * (Abs(pos1[1] - pos2[1]) + Abs(pos1[2] - pos2[2])), root |-> 0]

\* AStar.heuristic, in quarter pixels: the value is whole + sqrt(root), where
\* root is the squared distance for "euclidean" and 0 for the other types
heuristic(pos1, pos2, heuristic_type) ==
    IF heuristic_type = "euclidean"
    THEN [whole |-> 0, root |-> DistSq(pos1, pos2)]
    ELSE IF heuristic_type = "diagonal"
    THEN [whole |-> Max2(Abs(pos1[1] - pos2[1]), Abs(pos1[2] - pos2[2])), root |-> 0]
    ELSE [whole |-> Abs(pos1[1] - pos2[1]) + Abs(pos1[2] - pos2[2]), root |-> 0]

\* neighbours of which the first lies diagonally
get_neighbors_skewed(position) ==
    << <<position[1] - Px(16), position[2] - Px(16)>>, <<position[1], position[2] + Px(16)>>,
       <<position[1] - Px(16), position[2]>>, <<position[1] + Px(16), position[2]>> >>

\* AStar.get_neighbors with the default cell_size = 16: UP, DOWN, LEFT, RIGHT
get_neighbors(position) ==
    << <<position[1], position[2] - Px(16)>>, <<position[1], position[2] + Px(16)>>,
       <<position[1] - Px(16), position[2]>>, <<position[1] + Px(16), position[2]>> >>

\* sqrt(ra) < d + sqrt(rb) for integers ra, rb >= 0 and d, decided exactly by
\* squaring; factors common to the three are removed first, which keeps the
\* products small
RECURSIVE RootLess(_, _, _)
RootLess(ra, d, rb) ==
    IF d % 2 = 0 /\ ra % 4 = 0 /\ rb % 4 = 0 /\ (d # 0 \/ ra # 0 \/ rb # 0)
    THEN RootLess(ra \div 4, d \div 2, rb \div 4)
    ELSE IF d >= 0
    THEN \/ ra - rb - d * d < 0
         \/ (ra - rb - d * d) * (ra - rb - d * d) < 4 * d * d * rb
    ELSE /\ rb - ra - d * d > 0
         /\ 4 * d * d * ra < (rb - ra - d * d) * (rb - ra - d * d)

\* AStarNode.__lt__: self.f_cost < other.f_cost, the f cost of a node being
\* f_cost + sqrt(f_root)
NodeLess(a, b) ==
    IF a.f_root = 0 /\ b.f_root = 0 THEN a.f_cost < b.f_cost
    ELSE RootLess(a.f_root, b.f_cost - a.f_cost, b.f_root)

\* heapq._siftdown(heap, startpos, pos) with newitem held aside (0-based positions)
RECURSIVE SiftDown(_, _, _, _)
SiftDown(heap, startpos, pos, newitem) ==
    IF pos > startpos
    THEN LET parentpos == (pos - 1) \div 2
         IN  IF NodeLess(newitem, heap[parentpos + 1])
             THEN SiftDown([heap EXCEPT ![pos + 1] = heap[parentpos + 1]], startpos, parentpos, newitem)
             ELSE [heap EXCEPT ![pos + 1] = newitem]
    ELSE [heap EXCEPT ![pos + 1] = newitem]

\* heapq._siftup(heap, pos): move the smaller child up until a leaf, then sift down
RECURSIVE SiftUp(_, _, _, _)
SiftUp(heap, startpos, pos, newitem) ==
    LET endpos == Len(heap)
        childpos == 2 * pos + 1
        rightpos == childpos + 1
        c == IF rightpos < endpos /\ ~NodeLess(heap[childpos + 1], heap[rightpos + 1])
             THEN rightpos ELSE childpos
    IN  IF childpos < endpos
        THEN SiftUp([heap EXCEPT ![pos + 1] = heap[c + 1]], startpos, c, newitem)
        ELSE SiftDown(heap, startpos, pos, newitem)

\* heapq.heappush
heappush(heap, item) == SiftDown(Append(heap, item), 0, Len(heap), item)

\* heapq.heappop: the heap that remains
heappop_rest(heap) ==
    LET lastelt == heap[Len(heap)]
        rest == SubSeq(heap, 1, Len(heap) - 1)
    IN  IF Len(rest) > 0 THEN SiftUp(rest, 0, 0, lastelt) ELSE rest

\* heapq.heappop: the item returned
heappop_item(heap) == heap[1]

\* AStarNode; the chain of parent links is kept as the list of positions
\* from the start node to this node, which is what reconstruct_path returns
AStarNode(position, g_cost, h_cost, parent_path) ==
    [position |-> position, g_cost |-> g_cost,
     f_cost |-> g_cost + h_cost.whole, f_root |-> h_cost.root,
     path |-> Append(parent_path, position)]

\* AStar.reconstruct_path
reconstruct_path(node) == node.path

\* the neighbour loop of AStar.find_path, neighbours i..4 of the current node;
\* st = [open, best] with best the dictionary best_costs
RECURSIVE ExpandNeighbors(_, _, _, _, _, _, _)
ExpandNeighbors(st, closed, current, i, goal, m, heuristic_type) ==
    IF i > 4 THEN st
    ELSE LET n == get_neighbors(current.position)[i]
             g_cost == current.g_cost + Px(16)
             better == \/ n \notin DOMAIN st.best
                       \/ g_cost < st.best[n]
             next == IF n \in closed THEN st
                     ELSE IF ~is_valid_position(m, n, 16, "ghost") THEN st
                     ELSE IF better
                     THEN [open |-> heappush(st.open,
                                     AStarNode(n, g_cost, heuristic(n, goal, heuristic_type), current.path)),
                           best |-> [k \in DOMAIN st.best \cup {n} |->
                                        IF k = n THEN g_cost ELSE st.best[k]]]
                     ELSE st
         IN  ExpandNeighbors(next, closed, current, i + 1, goal, m, heuristic_type)

\* a call of is_valid_position in the neighbour loop raises IndexError
neighbors_raise(m, position, closed) ==
    \E i \in 1..4 :
        /\ get_neighbors(position)[i] \notin closed
        /\ is_valid_position_outcome(m, get_neighbors(position)[i], 16, "ghost") = "IndexError"

RECURSIVE AStarLoop(_, _, _, _, _, _)

\* one round of the main loop of AStar.find_path for the node popped;
\* rest = [open, best] after the pop, pops the nodes popped so far
AStarVisit(current, rest, closed, goal, m, heuristic_type, pops) ==
    IF CloserThan(current.position, goal, Px(8))
    THEN [outcome |-> "returned", path |-> reconstruct_path(current), pops |-> pops]
    ELSE IF neighbors_raise(m, current.position, closed \cup {current.position})
    THEN [outcome |-> "IndexError", path |-> << >>, pops |-> pops]
    ELSE AStarLoop(ExpandNeighbors(rest, closed \cup {current.position}, current, 1,
                                   goal, m, heuristic_type),
                   closed \cup {current.position}, goal, m, heuristic_type, pops)

\* the main loop of AStar.find_path: how the call ends (a path returned or
\* the exception raised) and the number of nodes it popped
AStarLoop(st, closed, goal, m, heuristic_type, pops) ==
    IF Len(st.open) = 0 THEN [outcome |-> "returned", path |-> << >>, pops |-> pops]
    ELSE AStarVisit(heappop_item(st.open), [st EXCEPT !.open = heappop_rest(st.open)],
                    closed, goal, m, heuristic_type, pops + 1)

\* a call of AStar.find_path
find_path_call(start, goal, m, heuristic_type) ==
    AStarLoop([open |-> << AStarNode(start, 0, heuristic(start, goal, heuristic_type), << >>) >>,
               best |-> [k \in {start} |-> 0]],
              {}, goal, m, heuristic_type, 0)

\* AStar.find_path: the path returned
find_path(start, goal, m, heuristic_type) ==
    find_path_call(start, goal, m, heuristic_type).path

----------------------------------------------------------------------------
(* Ghost behaviour engine: direction selection *)

\* one call of choose_direction_advanced consumes at most two draws of
\* random.random() (r1, r2, in percent) and one of random.choice (k)
Draws == [r1 : 0..99, r2 : 0..99, k : 0..3]

\* index (1-based) of the first element with the smallest key: min(seq, key=...)
ArgMin(seq) ==
    CHOOSE i \in 1..Len(seq) :
        /\ \A j \in 1..Len(seq) : seq[i].key <= seq[j].key
        /\ \A j \in 1..(i - 1) : seq[j].key > seq[i].key

\* index of the first element with the largest key: max(seq, key=...)
ArgMax(seq) ==
    CHOOSE i \in 1..Len(seq) :
        /\ \A j \in 1..Len(seq) : seq[i].key >= seq[j].key
        /\ \A j \in 1..(i - 1) : seq[j].key < seq[i].key

\* sorted(seq, key=...): stable insertion into an already sorted list
RECURSIVE InsertSorted(_, _)
InsertSorted(sorted, x) ==
    IF Len(sorted) = 0 THEN << x >>
    ELSE IF sorted[Len(sorted)].key <= x.key THEN Append(sorted, x)
    ELSE Append(InsertSorted(SubSeq(sorted, 1, Len(sorted) - 1), x), sorted[Len(sorted)])

RECURSIVE SortByKey(_)
SortByKey(seq) ==
    IF Len(seq) = 0 THEN << >>
    ELSE InsertSorted(SortByKey(SubSeq(seq, 1, Len(seq) - 1)), seq[Len(seq)])

OppositeDirection(d) ==
    CASE d = "UP" -> "DOWN"
      [] d = "DOWN" -> "UP"
      [] d = "LEFT" -> "RIGHT"
      [] d = "RIGHT" -> "LEFT"
      [] OTHER -> "NONE"

\* the list possible_directions of choose_direction_advanced: the unobstructed
\* directions in the order UP, DOWN, LEFT, RIGHT, each with ten times the
\* Manhattan distance of the stepped position to the target, and nine times
\* for the current direction (distance * 0.9)
possible_directions(g, m, target) ==
    LET all == << "UP", "DOWN", "LEFT", "RIGHT" >>
        entry(d) ==
            LET test_pos == move(g.position, g.speed, d)
                dist == manhattan_distance_to(test_pos, target)
            IN  [dir |-> d,
                 key |-> IF g.direction /= "NONE" /\ d = g.direction THEN 9 * dist ELSE 10 * dist]
    IN  SelectSeq([i \in 1..4 |-> entry(all[i])],
                  LAMBDA e : can_move(g.position, g.speed, e.dir, m, "ghost"))

\* Ghost.choose_direction_advanced from the list pd of possible directions:
\* the personality of the ghost picks one with the draws c
choose_among(g, pd, c) ==
    LET n == Len(pd)
    IN  IF n = 0 THEN "NONE"
        ELSE IF g.state = "vulnerable" THEN pd[ArgMax(pd)].dir
        ELSE IF g.ghost_type = "red" THEN
            IF c.r1 < 5
            THEN LET two == SubSeq(pd, 1, Min2(2, n)) IN two[(c.k % Len(two)) + 1].dir
            ELSE pd[ArgMin(pd)].dir
        ELSE IF g.ghost_type = "pink" THEN
            IF c.r1 < 20 THEN pd[(c.k % n) + 1].dir
            ELSE IF c.r2 < 30 /\ n > 1 THEN SortByKey(pd)[2].dir
            ELSE pd[ArgMin(pd)].dir
        ELSE IF g.ghost_type = "cyan" THEN
            LET filtered == SelectSeq(pd, LAMBDA e : e.dir /= OppositeDirection(g.direction))
                pd2 == IF g.direction /= "NONE" /\ Len(filtered) > 0 /\ c.r1 < 80
                       THEN filtered ELSE pd
                three == SubSeq(pd2, 1, Min2(3, Len(pd2)))
            IN  IF c.r2 < 15 THEN three[ArgMax(three)].dir
                ELSE pd2[ArgMin(pd2)].dir
        ELSE
            IF c.r1 < 25 THEN pd[(c.k % n) + 1].dir
            ELSE IF c.r1 < 40 THEN pd[ArgMax(pd)].dir
            ELSE IF c.r1 < 60 /\ n > 2 THEN SortByKey(pd)[(n \div 2) + 1].dir
            ELSE pd[ArgMin(pd)].dir

\* Ghost.choose_direction_advanced with the draws c
choose_direction_advanced(g, m, target, c) ==
    choose_among(g, possible_directions(g, m, target), c)

\* Ghost.should_use_astar with the draw r (percent): random.random() < chance,
\* compared in tenths of a percent; the difficulty bonus is 0.6 per level / 100
should_use_astar(g, target, r) ==
    LET bonus == 6 * g.difficulty_level
        chance(base, cap) == Min2(base * 10 + bonus, cap * 10)
    IN  IF g.ghost_type = "red" THEN r * 10 < chance(90, 100)
        ELSE IF g.ghost_type = "pink" THEN r * 10 < chance(60, 95)
        ELSE IF g.ghost_type = "cyan" THEN r * 10 < chance(85, 100)
        ELSE IF FartherThan(g.position, target, Px(150)) THEN r * 10 < chance(80, 100)
        ELSE IF FartherThan(g.position, target, Px(80)) THEN r * 10 < chance(50, 95)
        ELSE r * 10 < chance(20, 80)

\* a direction to the waypoint that looks at the horizontal difference first
calculate_direction_x_first(g, waypoint) ==
    IF waypoint[1] > g.position[1] THEN "RIGHT"
    ELSE IF waypoint[1] < g.position[1] THEN "LEFT"
    ELSE IF waypoint[2] > g.position[2] THEN "DOWN" ELSE "UP"

\* Ghost.calculate_direction_to_waypoint
calculate_direction_to_waypoint(g, waypoint) ==
    LET diff_x == waypoint[1] - g.position[1]
        diff_y == waypoint[2] - g.position[2]
    IN  IF Abs(diff_x) > Abs(diff_y)
        THEN IF diff_x > 0 THEN "RIGHT" ELSE "LEFT"
        ELSE IF diff_y > 0 THEN "DOWN" ELSE "UP"

\* the condition should_recalculate of Ghost.astar_pathfinding
should_recalculate(g, target) ==
    \/ Len(g.current_path) = 0
    \/ g.path_index >= Len(g.current_path) - 1
    \/ g.recalculate_path_timer > g.astar_frequency
    \/ (g.last_target /= NoTarget /\ FartherThan(g.last_target, target, Px(32)))

\* Ghost.astar_pathfinding, the step towards next_waypoint: the direction of
\* calculate_direction_to_waypoint if the ghost can move there, otherwise the
\* choice of choose_direction_advanced
toward_waypoint(g, m, target, c, searches, direction) ==
    IF can_move(g.position, g.speed, direction, m, "ghost")
    THEN [g |-> g, dir |-> direction, searches |-> searches]
    ELSE [g |-> g, dir |-> choose_direction_advanced(g, m, target, c), searches |-> searches]

\* Ghost.astar_pathfinding after the path was (re)computed: the ghost g follows
\* current_path; a waypoint closer than 12 pixels is passed, and past the
\* last one the direction is NONE
follow_path(g, m, target, c, searches) ==
    IF Len(g.current_path) > 0 /\ g.path_index < Len(g.current_path) - 1
    THEN IF CloserThan(g.position, g.current_path[g.path_index + 2], Px(12))
         THEN IF g.path_index + 1 < Len(g.current_path) - 1
              THEN toward_waypoint([g EXCEPT !.path_index = g.path_index + 1], m, target, c, searches,
                                   calculate_direction_to_waypoint(g, g.current_path[g.path_index + 3]))
              ELSE [g |-> [g EXCEPT !.path_index = g.path_index + 1], dir |-> "NONE",
                    searches |-> searches]
         ELSE toward_waypoint(g, m, target, c, searches,
                              calculate_direction_to_waypoint(g, g.current_path[g.path_index + 2]))
    ELSE [g |-> g, dir |-> choose_direction_advanced(g, m, target, c), searches |-> searches]

\* Ghost.astar_pathfinding: the ghost afterwards, the direction returned and
\* the number of A* searches run
astar_pathfinding(g, m, target, c) ==
    follow_path(IF should_recalculate(g, target)
                THEN [g EXCEPT !.current_path = find_path(g.position, target, m, "manhattan"),
                               !.path_index = 0,
                               !.recalculate_path_timer = 0,
                               !.last_target = target]
                ELSE g,
                m, target, c,
                IF should_recalculate(g, target) THEN 1 ELSE 0)

----------------------------------------------------------------------------
(* Ghost behaviour engine: Ghost.update *)

\* a timer the program never bounds, saturated above every threshold it is compared with
Sat(t) == IF t > TimerCap THEN TimerCap ELSE t

\* the random draws one Ghost.update can consume: the draw of should_use_astar
\* and the draws of the (at most two) calls of choose_direction_advanced
GhostDraws == [astar : 0..99, c1 : Draws, c2 : Draws]

LegacyInterval(ghost_type) ==
    CASE ghost_type = "red" -> 250
      [] ghost_type = "pink" -> 400
      [] ghost_type = "cyan" -> 350
      [] OTHER -> 500

AstarInterval == 100

\* a spawn delay that ends only once the countdown is below 0
SpawnDelayStep_late(g, delta) ==
    IF g.is_in_spawn_delay
    THEN IF g.spawn_delay_timer - delta < 0
         THEN [g |-> [g EXCEPT !.is_in_spawn_delay = FALSE, !.spawn_delay_timer = 0], done |-> FALSE]
         ELSE [g |-> [g EXCEPT !.spawn_delay_timer = g.spawn_delay_timer - delta], done |-> TRUE]
    ELSE [g |-> g, done |-> FALSE]

\* Ghost.update, the spawn-delay countdown (lines 689-697); "done" tells
\* whether update returns there
SpawnDelayStep(g, delta) ==
    IF g.is_in_spawn_delay
    THEN IF g.spawn_delay_timer - delta <= 0
         THEN [g |-> [g EXCEPT !.is_in_spawn_delay = FALSE, !.spawn_delay_timer = 0], done |-> FALSE]
         ELSE [g |-> [g EXCEPT !.spawn_delay_timer = g.spawn_delay_timer - delta], done |-> TRUE]
    ELSE [g |-> g, done |-> FALSE]

\* Ghost.update, the vulnerability countdown (lines 699-703)
VulnerableStep(g, delta) ==
    IF g.state = "vulnerable"
    THEN IF g.vulnerable_timer - delta <= 0
         THEN [g EXCEPT !.vulnerable_timer = g.vulnerable_timer - delta,
                        !.state = "normal", !.speed = HalfPx(3)]
         ELSE [g EXCEPT !.vulnerable_timer = g.vulnerable_timer - delta]
    ELSE g

\* Ghost.update, the patrol cadence (lines 708-712)
PatrolStep(g, delta) ==
    IF g.current_mode = "patrol"
    THEN IF g.patrol_timer + delta > 200
         THEN [advance_patrol_waypoint(g) EXCEPT !.patrol_timer = 0]
         ELSE [g EXCEPT !.patrol_timer = g.patrol_timer + delta]
    ELSE g

\* Ghost.update, lines 733-735 and 747-749: a direction other than NONE
\* becomes the direction and the last direction of the ghost
take_direction(g, dir) ==
    IF dir /= "NONE" THEN [g EXCEPT !.direction = dir, !.last_direction = dir] ELSE g

\* Ghost.update, lines 732-736: the outcome r of astar_pathfinding is taken
\* and the recalculation timer restarts
astar_decision(r) ==
    [g |-> [take_direction(r.g, r.dir) EXCEPT !.recalculate_path_timer = 0],
     searches |-> r.searches]

\* Ghost.update, lines 746-750: the direction d of choose_direction_advanced
\* is taken and the path-finding timer restarts
legacy_decision(g, d) ==
    [g |-> [take_direction(g, d) EXCEPT !.path_finding_timer = 0], searches |-> 0]

\* Ghost.update, lines 723-750: the periodic decision
periodic_decision(g, m, target, use_astar, c) ==
    IF use_astar
    THEN IF g.recalculate_path_timer > AstarInterval
         THEN astar_decision(astar_pathfinding(g, m, target, c))
         ELSE [g |-> g, searches |-> 0]
    ELSE IF g.path_finding_timer > LegacyInterval(g.ghost_type)
         THEN legacy_decision(g, choose_direction_advanced(g, m, target, c))
         ELSE [g |-> g, searches |-> 0]

\* Ghost.update, lines 755-762: the direction of a blocked ghost is replaced,
\* by NONE too; last_direction only by a direction other than NONE
redirect(g, dir, searches) ==
    [g |-> [g EXCEPT !.direction = dir,
                     !.last_direction = IF dir /= "NONE" THEN dir ELSE g.last_direction],
     searches |-> searches]

\* redirect with the outcome r of astar_pathfinding, after `before` searches
astar_redirect(r, before) == redirect(r.g, r.dir, before + r.searches)

\* Ghost.update, lines 752-762: the ghost moves, or picks a new direction
\* when it cannot
move_or_redirect(g, searches, m, target, use_astar, c) ==
    IF can_move(g.position, g.speed, g.direction, m, "ghost")
    THEN [g |-> [g EXCEPT !.position = move(g.position, g.speed, g.direction)],
          searches |-> searches]
    ELSE IF use_astar
         THEN astar_redirect(astar_pathfinding([g EXCEPT !.current_path = << >>], m, target, c),
                             searches)
         ELSE redirect(g, choose_direction_advanced(g, m, target, c), searches)

\* move_or_redirect after the periodic decision d
after_decision(d, m, target, use_astar, c) ==
    move_or_redirect(d.g, d.searches, m, target, use_astar, c)

\* Ghost.update, lines 721-762, for the target and the timers of this tick
steer(g, m, target, use_astar, rnd) ==
    after_decision(periodic_decision(g, m, target, use_astar, rnd.c1),
                   m, target, use_astar, rnd.c2)

\* steer with the draw of should_use_astar
steer_toward(g, m, target, rnd) ==
    steer(g, m, target, should_use_astar(g, target, rnd.astar), rnd)

\* Ghost.update, steering and movement (lines 714-762)
SteerStep(g0, delta, player_position, player_direction, m, other_ghosts, rnd) ==
    steer_toward([g0 EXCEPT !.path_finding_timer = Sat(g0.path_finding_timer + delta),
                            !.recalculate_path_timer = Sat(g0.recalculate_path_timer + delta)],
                 m,
                 get_target_position(g0, player_position, player_direction, other_ghosts),
                 rnd)

\* a Ghost.update without the early return of the spawn delay
GhostUpdate_through(g, delta, player_position, player_direction, m, other_ghosts, rnd) ==
    LET sd == SpawnDelayStep(g, delta)
    IN  SteerStep(PatrolStep(update_mode(VulnerableStep(sd.g, delta), delta), delta),
                  delta, player_position, player_direction, m, other_ghosts, rnd)

\* Ghost.update(delta_time, player_position, player_direction, game_map,
\* other_ghosts) with the draws rnd: the ghost afterwards and the number of
\* A* searches it ran (the animation counter is cosmetic and left out)
GhostUpdate(g, delta, player_position, player_direction, m, other_ghosts, rnd) ==
    LET sd == SpawnDelayStep(g, delta)
    IN  IF sd.done THEN [g |-> sd.g, searches |-> 0]
        ELSE SteerStep(PatrolStep(update_mode(VulnerableStep(sd.g, delta), delta), delta),
                       delta, player_position, player_direction, m, other_ghosts, rnd)

----------------------------------------------------------------------------
(* Round / rules controller: Game *)

GameStates == {"MENU", "PLAYING", "GAME_OVER", "PAUSED", "VICTORY", "OPTIONS",
               "HISTORY", "INTERMISSION"}

\* collision_radius = sprite_manager.base_sprite_size // 2
collision_radius == Px(base_sprite_size \div 2)

GhostBonus == 200

\* the record kept in log: what the last Game.update did (delta of the tick,
\* A* searches per ghost, pellets eaten, player and ghosts as the pellet sweep
\* left them, ghosts captured, ghosts that cost a life, calls of _reset_positions)
NoLog == [op |-> "none", delta |-> 0, searches |-> <<0, 0, 0, 0>>, moved |-> << >>,
          eaten |-> << >>, swept |-> << >>, captured |-> << >>, life_lost |-> << >>,
          resets |-> 0, since |-> 0]

\* the part of Game._initialize_game that depends on the map index:
\* the Map, a new Player, the four ghosts of ghost_configs, the pellets
InitMap(maps, idx) == load_from_json(maps[idx + 1])

InitPlayer(m) == NewPlayer(get_spawn_position(m, "player"))

InitGhosts(m) ==
    [i \in 1..Len(GhostTypes) |->
        set_difficulty(NewGhost(GhostTypes[i], get_spawn_position(m, "ghost_" \o GhostTypes[i])),
                       m.difficulty)]

\* a _reset_positions that forgets the player
reset_positions_ghosts_only(p, gs, m) ==
    [player |-> p, ghosts |-> [i \in 1..Len(gs) |-> reset_position(gs[i])]]

\* a _reset_positions that leaves everyone in place
reset_positions_in_place(p, gs, m) == [player |-> p, ghosts |-> gs]

\* Game._reset_positions
reset_positions(p, gs, m) ==
    [player |-> [p EXCEPT !.position = get_spawn_position(m, "player")],
     ghosts |-> [i \in 1..Len(gs) |-> reset_position(gs[i])]]

\* Game.update, lines 517-518: the ghosts are updated in list order, each
\* one seeing the list as the earlier updates left it; rs[i] is the outcome
\* of the update of ghost i (the ghost itself before its turn)
RECURSIVE UpdateGhosts(_, _, _, _, _, _)
UpdateGhosts(rs, i, delta, p, m, rnd) ==
    IF i > Len(rs) THEN rs
    ELSE UpdateGhosts([rs EXCEPT ![i] = GhostUpdate(rs[i].g, delta, p.position, p.direction, m,
                                                    [k \in 1..Len(rs) |-> rs[k].g], rnd[i])],
                      i + 1, delta, p, m, rnd)

\* Game.update, lines 520-540: the pellet sweep over pellets i..;
\* st = [player, ghosts, map, kept, eaten]
RECURSIVE PelletSweep(_, _, _)
PelletSweep(st, ps, i) ==
    IF i > Len(ps) THEN st
    ELSE LET pellet == ps[i]
         IN  IF CloserThan(st.player.position, pellet.position, collision_radius)
             THEN LET p1 == eat_pellet(st.player, pellet.value)
                      m1 == remove_pellet_at(st.map, pellet.position)
                      power == pellet.type = "power_up"
                  IN  PelletSweep(
                        [player |-> IF power THEN activate_power_up(p1) ELSE p1,
                         ghosts |-> IF power
                                    THEN [k \in 1..Len(st.ghosts) |-> set_vulnerable(st.ghosts[k])]
                                    ELSE st.ghosts,
                         map |-> m1,
                         kept |-> st.kept,
                         eaten |-> Append(st.eaten, pellet)], ps, i + 1)
             ELSE PelletSweep([st EXCEPT !.kept = Append(st.kept, pellet)], ps, i + 1)

\* Game.update, lines 563-581: the ghost collision loop over ghosts i..;
\* st = [player, ghosts, gstate, inputActive, showSave, captured, life_lost, resets]
RECURSIVE GhostCollisions(_, _, _)
GhostCollisions(st, m, i) ==
    IF i > Len(st.ghosts) THEN st
    ELSE LET ghost == st.ghosts[i]
         IN  IF CloserThan(st.player.position, ghost.position, collision_radius)
             THEN IF ghost.state = "vulnerable"
                  THEN GhostCollisions(
                         [st EXCEPT !.player = eat_pellet(st.player, GhostBonus),
                                    !.ghosts[i] = set_eaten_with_delay(ghost),
                                    !.captured = Append(st.captured, i)], m, i + 1)
                  ELSE IF ghost.state = "normal"
                  THEN LET p1 == lose_life(st.player)
                       IN  IF p1.lives <= 0
                           THEN GhostCollisions(
                                  [st EXCEPT !.player = p1,
                                             !.gstate = "GAME_OVER",
                                             !.inputActive = TRUE,
                                             !.showSave = FALSE,
                                             !.life_lost = Append(st.life_lost, i)], m, i + 1)
                           ELSE LET r == reset_positions(p1, st.ghosts, m)
                                IN  GhostCollisions(
                                      [st EXCEPT !.player = r.player,
                                                 !.ghosts = r.ghosts,
                                                 !.life_lost = Append(st.life_lost, i),
                                                 !.resets = st.resets + 1], m, i + 1)
                  ELSE GhostCollisions(st, m, i + 1)
             ELSE GhostCollisions(st, m, i + 1)

----------------------------------------------------------------------------
(* Inputs of the controller: map files, elapsed times, random draws *)

\* spawn entries of a map file: grid coordinates <<x, y>> per entity name
PlayerOnly(p) == [n \in {"player"} |-> p]

PlayerAndRed(p, r) == [n \in {"player", "ghost_red"} |-> IF n = "player" THEN p ELSE r]

Spawns(p, r, k) ==
    [n \in {"player", "ghost_red", "ghost_pink"} |->
        CASE n = "player" -> p [] n = "ghost_red" -> r [] OTHER -> k]

\* The map files explored.  A ghost without a spawn entry gets the fallback
\* of get_spawn_position, the grid corner (16, 16), where every step is
\* obstructed: it stays there, out of the player's reach.

\* two pellets in a corridor, no ghost in it
RunFile ==
    [layout |-> << <<1, 1, 1, 1, 1>>,
                   <<1, 0, 2, 2, 1>>,
                   <<1, 1, 1, 1, 1>> >>,
     difficulty |-> 0,
     spawn_positions |-> PlayerOnly(<<1, 1>>)]

\* the last map: red walks towards the pellet that lies between it and the player
FinalFile ==
    [layout |-> << <<1, 1, 1, 1, 1>>,
                   <<1, 0, 2, 0, 1>>,
                   <<1, 1, 1, 1, 1>> >>,
     difficulty |-> 100,
     spawn_positions |-> PlayerAndRed(<<3, 1>>, <<1, 1>>)]

\* two free cells, the player in one and red and pink in the other; the
\* only pellet lies in a pocket nobody reaches
DuelFile ==
    [layout |-> << <<1, 1, 1, 1, 1, 1>>,
                   <<1, 0, 0, 1, 2, 1>>,
                   <<1, 1, 1, 1, 1, 1>> >>,
     difficulty |-> 200,
     spawn_positions |-> Spawns(<<1, 1>>, <<2, 1>>, <<2, 1>>)]

\* a hand-written file that puts red, pink and cyan on the player's own cell
ClashFile ==
    [layout |-> << <<1, 1, 1, 1, 1, 1>>,
                   <<1, 0, 0, 1, 2, 1>>,
                   <<1, 1, 1, 1, 1, 1>> >>,
     difficulty |-> 50,
     spawn_positions |-> [n \in {"player", "ghost_red", "ghost_pink", "ghost_cyan"} |-> <<1, 1>>]]

\* cyan and orange start on the power-up next to the player; the pellet in
\* the pocket keeps the map from being cleared
HuntFile ==
    [layout |-> << <<1, 1, 1, 1, 1, 1>>,
                   <<1, 0, 3, 1, 2, 1>>,
                   <<1, 1, 1, 1, 1, 1>> >>,
     difficulty |-> 50,
     spawn_positions |-> [n \in {"player", "ghost_cyan", "ghost_orange"} |->
                              IF n = "player" THEN <<1, 1>> ELSE <<2, 1>>]]

\* the campaigns explored (Map.get_available_maps sorts by difficulty)
Catalogs == { << RunFile, FinalFile >>, << DuelFile >>, << ClashFile >> }

HuntCatalogs == { << HuntFile >> }

\* number of ticks of active play followed on one map by the
\* specifications that bound it
MaxTicks == 14

RangeOf(seq) == {seq[k] : k \in 1..Len(seq)}

\* elapsed times of one tick, in ms (clock.tick(60))
Deltas == {1000}

SteadyDraws == [r1 |-> 99, r2 |-> 99, k |-> 0]

\* the draws explored for the ghosts of one tick
TickDraws ==
    {[i \in 1..Len(GhostTypes) |-> [astar |-> a, c1 |-> SteadyDraws, c2 |-> SteadyDraws]] :
        a \in {0}}

----------------------------------------------------------------------------
(* Actions of the controller *)

\* Game._initialize_game for map index idx
InitializeGame(idx) ==
    \E m \in {InitMap(availableMaps, idx)} :
        /\ map' = m
        /\ player' = InitPlayer(m)
        /\ ghosts' = InitGhosts(m)
        /\ pellets' = get_pellets(m)

\* Game.__init__: MENU, campaign and first map initialised
Init ==
    /\ availableMaps \in Catalogs
    /\ gstate = "MENU"
    /\ mapIndex = 0
    /\ campaignTotal = 0
    /\ map = InitMap(availableMaps, 0)
    /\ player = InitPlayer(map)
    /\ ghosts = InitGhosts(map)
    /\ pellets = get_pellets(map)
    /\ inputActive = FALSE
    /\ showSave = FALSE
    /\ log = NoLog
    /\ ticks = 0

\* process_events, MENU, RETURN on "Jogar": Game._reset_game
MenuStart ==
    /\ ticks' = 0
    /\ gstate = "MENU"
    /\ mapIndex' = 0
    /\ campaignTotal' = 0
    /\ InitializeGame(0)
    /\ gstate' = "PLAYING"
    /\ inputActive' = FALSE
    /\ showSave' = FALSE
    /\ log' = NoLog
    /\ UNCHANGED availableMaps

\* process_events, lines 337-409, the keys that move between the menus:
\* RETURN on the options entry of MENU; in OPTIONS, RETURN on the history
\* entry, RETURN on the last entry or ESCAPE; in HISTORY, LEFT or ESCAPE
KeyMenus(to) ==
    /\ ticks' = ticks
    /\ \/ gstate = "MENU" /\ to = "OPTIONS"
       \/ gstate = "OPTIONS" /\ to \in {"HISTORY", "MENU"}
       \/ gstate = "HISTORY" /\ to = "OPTIONS"
    /\ gstate' = to
    /\ log' = NoLog
    /\ UNCHANGED <<availableMaps, mapIndex, campaignTotal, map, player, ghosts, pellets,
                   inputActive, showSave>>

\* process_events, PLAYING, an arrow or WASD key: the direction setter
KeyDirection(d) ==
    /\ ticks' = ticks
    /\ gstate = "PLAYING"
    /\ player' = set_direction(player, d)
    /\ log' = NoLog
    /\ UNCHANGED <<gstate, availableMaps, mapIndex, campaignTotal, map, ghosts, pellets,
                   inputActive, showSave>>

\* process_events, ESCAPE in PLAYING or PAUSED
KeyPause ==
    /\ ticks' = ticks
    /\ gstate \in {"PLAYING", "PAUSED"}
    /\ gstate' = IF gstate = "PLAYING" THEN "PAUSED" ELSE "PLAYING"
    /\ log' = NoLog
    /\ UNCHANGED <<availableMaps, mapIndex, campaignTotal, map, player, ghosts, pellets,
                   inputActive, showSave>>

\* process_events, PAUSED, RETURN: back to the menu with the map re-initialised
PausedReturn ==
    /\ ticks' = 0
    /\ gstate = "PAUSED"
    /\ InitializeGame(mapIndex)
    /\ gstate' = "MENU"
    /\ log' = NoLog
    /\ UNCHANGED <<availableMaps, mapIndex, campaignTotal, inputActive, showSave>>

\* process_events, INTERMISSION, RETURN: skip the intermission
IntermissionSkip ==
    /\ ticks' = 0
    /\ gstate = "INTERMISSION"
    /\ InitializeGame(mapIndex)
    /\ gstate' = "PLAYING"
    /\ log' = NoLog
    /\ UNCHANGED <<availableMaps, mapIndex, campaignTotal, inputActive, showSave>>

\* process_events, ESCAPE in INTERMISSION, or in GAME_OVER / VICTORY once
\* the name entry is over
KeyToMenu ==
    /\ ticks' = ticks
    /\ \/ gstate = "INTERMISSION"
       \/ gstate \in {"GAME_OVER", "VICTORY"} /\ ~inputActive /\ ~showSave
    /\ gstate' = "MENU"
    /\ log' = NoLog
    /\ UNCHANGED <<availableMaps, mapIndex, campaignTotal, map, player, ghosts, pellets,
                   inputActive, showSave>>

\* process_events, GAME_OVER / VICTORY, RETURN with a name typed: the score is saved
EndScreenSave ==
    /\ ticks' = ticks
    /\ gstate \in {"GAME_OVER", "VICTORY"}
    /\ inputActive
    /\ inputActive' = FALSE
    /\ showSave' = TRUE
    /\ log' = NoLog
    /\ UNCHANGED <<gstate, availableMaps, mapIndex, campaignTotal, map, player, ghosts, pellets>>

\* process_events, GAME_OVER / VICTORY, RETURN once no name entry is open: Game._reset_game
EndScreenRestart ==
    /\ ticks' = 0
    /\ gstate \in {"GAME_OVER", "VICTORY"}
    /\ ~inputActive /\ ~showSave
    /\ mapIndex' = 0
    /\ campaignTotal' = 0
    /\ InitializeGame(0)
    /\ gstate' = "PLAYING"
    /\ inputActive' = FALSE
    /\ showSave' = FALSE
    /\ log' = NoLog
    /\ UNCHANGED availableMaps

\* Game.update, lines 491-497: the save confirmation is showing; after one
\* second of wall-clock time (elapsed) the game returns to the menu
UpdateSaveConfirmation(elapsed) ==
    /\ ticks' = ticks
    /\ showSave
    /\ showSave' = IF elapsed THEN FALSE ELSE showSave
    /\ gstate' = IF elapsed THEN "MENU" ELSE gstate
    /\ log' = NoLog
    /\ UNCHANGED <<availableMaps, mapIndex, campaignTotal, map, player, ghosts, pellets,
                   inputActive>>

\* Game.update, lines 499-505 and 511-514: INTERMISSION; after the
\* intermission duration of wall-clock time (elapsed) the next map starts
UpdateIntermission(elapsed) ==
    /\ ticks' = ticks
    /\ ~showSave
    /\ gstate = "INTERMISSION"
    /\ IF elapsed
       THEN /\ InitializeGame(mapIndex)
            /\ gstate' = "PLAYING"
       ELSE UNCHANGED <<gstate, map, player, ghosts, pellets>>
    /\ log' = NoLog
    /\ UNCHANGED <<availableMaps, mapIndex, campaignTotal, inputActive, showSave>>

\* an update that moves the player in the states without play
UpdateIdle_moving ==
    /\ ticks' = ticks
    /\ ~showSave
    /\ gstate \notin {"PLAYING", "INTERMISSION"}
    /\ player' = PlayerUpdate(player, 1000, map)
    /\ inputActive' = IF gstate \in {"VICTORY", "GAME_OVER"} THEN TRUE ELSE inputActive
    /\ log' = NoLog
    /\ UNCHANGED <<gstate, availableMaps, mapIndex, campaignTotal, map, ghosts,
                   pellets, showSave>>

\* Game.update, lines 507-512: every state but PLAYING and INTERMISSION;
\* in VICTORY and GAME_OVER the name entry is opened
UpdateIdle ==
    /\ ticks' = ticks
    /\ ~showSave
    /\ gstate \notin {"PLAYING", "INTERMISSION"}
    /\ inputActive' = IF gstate \in {"VICTORY", "GAME_OVER"} THEN TRUE ELSE inputActive
    /\ log' = NoLog
    /\ UNCHANGED <<gstate, availableMaps, mapIndex, campaignTotal, map, player, ghosts,
                   pellets, showSave>>

\* a controller that never notices the empty pellet list
map_completed_never(kept) == FALSE

\* Game.update, line 542: the pellet list is empty after the sweep
map_completed(kept) == Len(kept) = 0

\* Game.update, lines 563-581, after the collision loop gc: the fields of
\* the controller at the end of the tick
TickCollided(sw, lg, gc) ==
    [player |-> gc.player, ghosts |-> gc.ghosts, map |-> sw.map, pellets |-> sw.kept,
     campaignTotal |-> campaignTotal, mapIndex |-> mapIndex,
     gstate |-> gc.gstate,
     inputActive |-> gc.inputActive, showSave |-> gc.showSave,
     log |-> [lg EXCEPT !.captured = gc.captured,
                        !.life_lost = gc.life_lost,
                        !.resets = gc.resets]]

\* Game.update, lines 542-581, after the pellet sweep sw: the map is
\* completed and update returns, or the collision loop runs
TickSwept(sw, lg) ==
    IF map_completed(sw.kept)
    THEN [player |-> sw.player, ghosts |-> sw.ghosts, map |-> sw.map, pellets |-> sw.kept,
          campaignTotal |-> campaignTotal + sw.player.score,
          mapIndex |-> IF mapIndex + 1 < Len(availableMaps) THEN mapIndex + 1 ELSE mapIndex,
          gstate |-> IF mapIndex + 1 < Len(availableMaps) THEN "INTERMISSION" ELSE "VICTORY",
          inputActive |-> inputActive, showSave |-> showSave, log |-> lg]
    ELSE TickCollided(sw, lg,
                      GhostCollisions(
                         [player |-> sw.player, ghosts |-> sw.ghosts, gstate |-> gstate,
                          inputActive |-> inputActive, showSave |-> showSave,
                          captured |-> << >>, life_lost |-> << >>, resets |-> 0],
                         sw.map, 1))

\* the record of the tick once the pellets are swept
TickLogged(sw, lg) ==
    TickSwept(sw, [lg EXCEPT !.eaten = sw.eaten,
                             !.swept = [player |-> sw.player, ghosts |-> sw.ghosts]])

\* Game.update, lines 520-581, after the updates of the player (p1) and of
\* the ghosts (gs, with their A* searches)
TickMoved(p1, gs, searches, delta) ==
    TickLogged(PelletSweep([player |-> p1, ghosts |-> gs, map |-> map,
                            kept |-> << >>, eaten |-> << >>], pellets, 1),
               [NoLog EXCEPT !.op = "playing", !.delta = delta, !.searches = searches,
                             !.moved = [player |-> p1, ghosts |-> gs]])

\* Game.update, lines 517-581, after the update of the player; ug is the
\* outcome of the ghost updates
TickGhostsUpdated(p1, ug, delta) ==
    TickMoved(p1, [i \in 1..Len(ug) |-> ug[i].g], [i \in 1..Len(ug) |-> ug[i].searches], delta)

\* Game.update, lines 517-581, for the player p1 as Player.update left it
TickPlayerUpdated(p1, delta, rnd) ==
    TickGhostsUpdated(p1,
                      UpdateGhosts([i \in 1..Len(ghosts) |-> [g |-> ghosts[i], searches |-> 0]],
                                   1, delta, p1, map, rnd),
                      delta)

\* Game.update, lines 514-581, as a function of the state before: the
\* values of the controller's fields after one tick of active play with
\* elapsed time delta (ms) and the draws rnd[i] of ghost i
PlayingTick(delta, rnd) ==
    TickPlayerUpdated(PlayerUpdate(player, delta, map), delta, rnd)

\* Game.update in PLAYING
PlayingStep(delta, rnd) ==
    /\ ~showSave
    /\ gstate = "PLAYING"
    /\ \E r \in {PlayingTick(delta, rnd)} :
        /\ player' = r.player
        /\ ghosts' = r.ghosts
        /\ map' = r.map
        /\ pellets' = r.pellets
        /\ campaignTotal' = r.campaignTotal
        /\ mapIndex' = r.mapIndex
        /\ gstate' = r.gstate
        /\ inputActive' = r.inputActive
        /\ showSave' = r.showSave
        /\ log' = r.log
    /\ UNCHANGED availableMaps

UpdatePlaying(delta, rnd) == PlayingStep(delta, rnd) /\ UNCHANGED ticks

\* the same tick, counted against MaxTicks
UpdatePlayingCounted(delta, rnd) ==
    /\ ticks < MaxTicks
    /\ PlayingStep(delta, rnd)
    /\ ticks' = ticks + 1

Next ==
    \/ MenuStart
    \/ \E d \in Directions \ {"NONE"} : KeyDirection(d)
    \/ KeyPause
    \/ PausedReturn
    \/ IntermissionSkip
    \/ KeyToMenu
    \/ EndScreenSave
    \/ EndScreenRestart
    \/ \E e \in BOOLEAN : UpdateSaveConfirmation(e)
    \/ \E e \in BOOLEAN : UpdateIntermission(e)
    \/ UpdateIdle
    \/ \E to \in {"MENU", "OPTIONS", "HISTORY"} : KeyMenus(to)
    \/ \E delta \in Deltas : \E rnd \in TickDraws : UpdatePlaying(delta, rnd)

Spec == Init /\ [][Next]_vars

\* the campaign of HuntCatalogs, ticks bounded by MaxTicks
InitHunt ==
    /\ availableMaps \in HuntCatalogs
    /\ gstate = "MENU"
    /\ mapIndex = 0
    /\ campaignTotal = 0
    /\ map = InitMap(availableMaps, 0)
    /\ player = InitPlayer(map)
    /\ ghosts = InitGhosts(map)
    /\ pellets = get_pellets(map)
    /\ inputActive = FALSE
    /\ showSave = FALSE
    /\ log = NoLog
    /\ ticks = 0

NextHunt ==
    \/ MenuStart
    \/ \E d \in Directions \ {"NONE"} : KeyDirection(d)
    \/ \E delta \in Deltas : \E rnd \in TickDraws : UpdatePlayingCounted(delta, rnd)

SpecHunt == InitHunt /\ [][NextHunt]_vars

----------------------------------------------------------------------------
(* One Ghost object driven call by call: the calls the controller makes on *)
(* a ghost (update, set_vulnerable, set_eaten_with_delay, reset_position), *)
(* in any order; while the ghost waits on its spawn the ticks are of       *)
(* either length of GhostDeltas.  log.since is the elapsed time handed to  *)
(* update since the ghost was captured.                                    *)

\* a yard of two cells with two power-ups; cyan starts next to the player
YardFile ==
    [layout |-> << <<1, 1, 1, 1>>,
                   <<1, 3, 3, 1>>,
                   <<1, 1, 1, 1>> >>,
     difficulty |-> 50,
     spawn_positions |-> [n \in {"player", "ghost_cyan"} |->
                              IF n = "player" THEN <<1, 1>> ELSE <<2, 1>>]]

\* the ghost driven: cyan, third of ghost_configs
Subject == CHOOSE i \in 1..Len(GhostTypes) : GhostTypes[i] = "cyan"

GhostDeltas == {500, 1000}

\* the draws explored for one update of the ghost
SubjectDraws == {rnd[Subject] : rnd \in TickDraws}

InitGhost ==
    /\ availableMaps = << YardFile >>
    /\ gstate = "PLAYING"
    /\ mapIndex = 0
    /\ campaignTotal = 0
    /\ map = InitMap(availableMaps, 0)
    /\ player = InitPlayer(map)
    /\ ghosts = InitGhosts(map)
    /\ pellets = get_pellets(map)
    /\ inputActive = FALSE
    /\ showSave = FALSE
    /\ log = NoLog
    /\ ticks = 0

\* ghost.update(delta_time, player position, player direction, map, ghosts)
GhostTick(delta, rnd) ==
    /\ delta \in Deltas \/ ghosts[Subject].is_in_spawn_delay
    /\ \E r \in {GhostUpdate(ghosts[Subject], delta, player.position, player.direction,
                             map, ghosts, rnd)} :
        /\ ghosts' = [ghosts EXCEPT ![Subject] = r.g]
        /\ log' = [NoLog EXCEPT !.op = "update", !.delta = delta,
                                !.searches[Subject] = r.searches,
                                !.since = IF ghosts[Subject].is_in_spawn_delay
                                          THEN log.since + delta ELSE 0]
    /\ UNCHANGED <<gstate, availableMaps, mapIndex, campaignTotal, map, player, pellets,
                   inputActive, showSave, ticks>>

\* a power-up is eaten: ghost.set_vulnerable(8000) on every ghost
GhostPowerUp ==
    /\ \E k \in 1..Len(pellets) :
        /\ pellets[k].type = "power_up"
        /\ pellets' = SubSeq(pellets, 1, k - 1) \o SubSeq(pellets, k + 1, Len(pellets))
    /\ ghosts' = [i \in 1..Len(ghosts) |-> set_vulnerable(ghosts[i])]
    /\ log' = [log EXCEPT !.op = "set_vulnerable"]
    /\ UNCHANGED <<gstate, availableMaps, mapIndex, campaignTotal, map, player,
                   inputActive, showSave, ticks>>

\* the ghost is captured while vulnerable: ghost.set_eaten_with_delay()
GhostCapture ==
    /\ ghosts[Subject].state = "vulnerable"
    /\ ghosts' = [ghosts EXCEPT ![Subject] = set_eaten_with_delay(ghosts[Subject])]
    /\ log' = [NoLog EXCEPT !.op = "set_eaten_with_delay"]
    /\ UNCHANGED <<gstate, availableMaps, mapIndex, campaignTotal, map, player, pellets,
                   inputActive, showSave, ticks>>

\* a life is lost: ghost.reset_position() on every ghost
GhostReset ==
    /\ ghosts' = [i \in 1..Len(ghosts) |-> reset_position(ghosts[i])]
    /\ log' = [log EXCEPT !.op = "reset_position"]
    /\ UNCHANGED <<gstate, availableMaps, mapIndex, campaignTotal, map, player, pellets,
                   inputActive, showSave, ticks>>

NextGhost ==
    \/ \E delta \in GhostDeltas : \E rnd \in SubjectDraws : GhostTick(delta, rnd)
    \/ GhostPowerUp
    \/ GhostCapture
    \/ GhostReset

SpecGhost == InitGhost /\ [][NextGhost]_vars

----------------------------------------------------------------------------
(* The Map object driven call by call: remove_pellet_at on any position *)

\* a field without border, every cell code in it
FieldFile ==
    [layout |-> << <<1, 2, 3, 1>>,
                   <<0, 2, 1, 3>>,
                   <<2, 0, 3, 2>> >>,
     difficulty |-> 0,
     spawn_positions |-> PlayerOnly(<<0, 1>>)]

\* positions handed to remove_pellet_at, in quarter pixels: cell centres,
\* cell edges, and points left of, above, right of and below the grid
FieldXs == {-33, -1, 0, 32, 63, 64, 96, 160, 255, 256, 288}

FieldYs == {-1, 0, 32, 63, 64, 96, 160, 191, 192}

InitField ==
    /\ availableMaps = << FieldFile >>
    /\ gstate = "MENU"
    /\ mapIndex = 0
    /\ campaignTotal = 0
    /\ map = InitMap(availableMaps, 0)
    /\ player = InitPlayer(map)
    /\ ghosts = InitGhosts(map)
    /\ pellets = get_pellets(map)
    /\ inputActive = FALSE
    /\ showSave = FALSE
    /\ log = NoLog
    /\ ticks = 0

\* map.remove_pellet_at(pos); log keeps the position and the value returned
RemovePelletAt(pos) ==
    /\ map' = remove_pellet_at(map, pos)
    /\ log' = [op |-> "remove_pellet_at", position |-> pos,
               result |-> remove_pellet_at_result(map, pos)]
    /\ UNCHANGED <<gstate, availableMaps, mapIndex, campaignTotal, player, ghosts, pellets,
                   inputActive, showSave, ticks>>

NextField == \E x \in FieldXs : \E y \in FieldYs : RemovePelletAt(<<x, y>>)

SpecField == InitField /\ [][NextField]_vars

\* C7: remove_pellet_at(pos) on a position whose cell holds a pellet or a
\* power-up sets that cell to empty, leaves every other cell unchanged and
\* returns True; on a position whose cell is empty, wall or outside the grid
\* it returns False and leaves the grid unchanged; a second call on the same
\* position returns False and changes nothing.
C7_RemovePelletAt ==
    [][ log'.op = "remove_pellet_at" =>
            LET col == log'.position[1] \div (4 * map.cell_size)
                row == log'.position[2] \div (4 * map.cell_size)
                inside == /\ 0 <= row /\ row < Len(map.layout)
                          /\ 0 <= col /\ col < Len(map.layout[1])
                holds == inside /\ map.layout[row + 1][col + 1] \in {2, 3}
            IN  /\ log'.result = holds
                /\ IF holds
                   THEN /\ map'.layout[row + 1][col + 1] = 0
                        /\ \A r \in 1..Len(map.layout) : \A c \in 1..Len(map.layout[r]) :
                               (r # row + 1 \/ c # col + 1) =>
                                   map'.layout[r][c] = map.layout[r][c]
                        /\ map' = [map EXCEPT !.layout = map'.layout]
                   ELSE map' = map
                /\ remove_pellet_at(map', log'.position) = map'
                /\ ~remove_pellet_at_result(map', log'.position) ]_vars

\* a power-up was removed by a call on a point off its cell's centre
C7_Witness ==
    /\ log.op = "remove_pellet_at" /\ log.result
    /\ log.position = <<160, 191>>
    /\ map.layout[3][3] = 0

----------------------------------------------------------------------------
(* Properties of the ghost's spawn-delay *)

Waiting == ghosts[Subject].is_in_spawn_delay

\* C4: a Ghost.update that leaves the ghost in spawn-delay takes the elapsed
\* time off the countdown, which stays above 0, and changes no other field
\* of the ghost (position, direction, speed, state, vulnerable timer, mode,
\* mode timer, patrol index, cached path, path cursor); no A* search is run.
C4_SpawnDelayInert ==
    [][ (log'.op = "update" /\ Waiting /\ Waiting') =>
            /\ ghosts'[Subject].spawn_delay_timer =
                   ghosts[Subject].spawn_delay_timer - log'.delta
            /\ ghosts'[Subject].spawn_delay_timer > 0
            /\ ghosts'[Subject] =
                   [ghosts[Subject] EXCEPT !.spawn_delay_timer = ghosts'[Subject].spawn_delay_timer]
            /\ log'.searches[Subject] = 0 ]_vars

\* the last update left the captured ghost waiting
C4_Witness ==
    /\ log.op = "update" /\ Waiting
    /\ ghosts[Subject].spawn_delay_timer < SpawnDelayDuration

\* the update that ends the spawn-delay steers and moves the ghost at once
Released ==
    (log'.op = "update" /\ Waiting /\ ~Waiting') =>
        /\ ghosts'[Subject].position # ghosts[Subject].position
        /\ ghosts'[Subject].direction # "NONE"
        /\ log'.searches[Subject] > 0

----------------------------------------------------------------------------
(* Properties of the controller.  A step with log'.op = "playing" is one   *)
(* tick of active play; log' then holds the player and the ghosts as the   *)
(* entity updates left them (moved) and as the pellet sweep left them      *)
(* (swept), the pellets eaten, and what the collision loop did.            *)

Tick == log'.op = "playing"

GhostIndices == 1..Len(GhostTypes)

\* in snapshot s the player is closer than the collision radius to ghost i
Contact(s, i) == CloserThan(s.player.position, s.ghosts[i].position, collision_radius)

NormalContact(s) == \E i \in GhostIndices : s.ghosts[i].state = "normal" /\ Contact(s, i)

VulnerableContacts(s) == {i \in GhostIndices : s.ghosts[i].state = "vulnerable" /\ Contact(s, i)}

\* the player's spawn point is at least the collision radius away from every ghost's
SpawnsApart(m) ==
    \A i \in GhostIndices :
        ~CloserThan(get_spawn_position(m, "player"),
                    get_spawn_position(m, "ghost_" \o GhostTypes[i]), collision_radius)

OnSpawn(p, gs, m) ==
    /\ p.position = get_spawn_position(m, "player")
    /\ \A i \in GhostIndices : gs[i].position = gs[i].initial_position

\* C1: a tick of active play after whose pellet sweep no pellets remain ends
\* in INTERMISSION when a further map exists and in VICTORY otherwise, never
\* in PLAYING, and resolves no ghost collision: no life is lost, no ghost is
\* captured, player and ghosts stay as the sweep left them.
C1_MapCompletion ==
    [][ (Tick /\ pellets' = << >>) =>
            /\ gstate' = IF mapIndex + 1 < Len(availableMaps) THEN "INTERMISSION" ELSE "VICTORY"
            /\ gstate' # "PLAYING"
            /\ log'.captured = << >> /\ log'.life_lost = << >> /\ log'.resets = 0
            /\ player'.lives = player.lives
            /\ player' = log'.swept.player
            /\ ghosts' = log'.swept.ghosts ]_vars

\* a map was completed in a tick in which a ghost was within the collision radius
C1_Witness ==
    /\ log.op = "playing" /\ pellets = << >>
    /\ gstate \in {"INTERMISSION", "VICTORY"}
    /\ \E i \in GhostIndices : Contact(log.swept, i)

\* what C2 says of a tick with a normal ghost in reach; the ghosts in
\* exempt need not keep their position when the game is over
LifeLossEffect(exempt) ==
    /\ player'.lives = player.lives - 1
    /\ IF player'.lives = 0
       THEN /\ gstate' = "GAME_OVER"
            /\ log'.resets = 0
            /\ player'.position = log'.swept.player.position
            /\ \A i \in GhostIndices \ exempt :
                   ghosts'[i].position = log'.swept.ghosts[i].position
       ELSE /\ OnSpawn(player', ghosts', map')
            /\ gstate' = "PLAYING"

\* C2 as stated: in a tick of active play with pellets remaining and a normal
\* ghost closer than the collision radius, lives decrease by one; at 0 lives
\* the state is GAME_OVER and no position is reset, otherwise every entity
\* is on its spawn and the state stays PLAYING.
C2_AsStated ==
    [][ (Tick /\ pellets' # << >> /\ NormalContact(log'.swept)) => LifeLossEffect({}) ]_vars

\* C2, amended: the same, on maps whose player spawn is at least the
\* collision radius away from every ghost spawn; at 0 lives _reset_positions
\* is not run, and every ghost that was not captured in that tick keeps its
\* position.
C2_LifeLoss ==
    [][ (Tick /\ pellets' # << >> /\ NormalContact(log'.swept) /\ SpawnsApart(map)) =>
            LifeLossEffect(RangeOf(log'.captured)) ]_vars

\* the last life was lost on a map with separated spawns
C2_Witness ==
    /\ log.op = "playing" /\ log.life_lost # << >> /\ NormalContact(log.swept)
    /\ SpawnsApart(map)
    /\ gstate = "GAME_OVER" /\ player.lives = 0

\* the ghost was captured and has not been updated since
JustCaptured(g) ==
    /\ g.position = g.initial_position
    /\ g.state = "normal"
    /\ g.current_path = << >>
    /\ g.is_in_spawn_delay
    /\ g.spawn_delay_timer = SpawnDelayDuration

RECURSIVE SumValues(_)
SumValues(ps) == IF ps = << >> THEN 0 ELSE Head(ps).value + SumValues(Tail(ps))

\* C6: the pellets of the list lie on distinct cells and are worth 10
\* (normal) or 50 (power-up); a tick eats exactly the listed pellets closer
\* than the collision radius to the player, adds each one's value to the
\* score once and drops it from the list; any other step leaves the list
\* alone or starts a map afresh with score 0, so a pellet eaten is never
\* met again on that map.
C6_PelletOnce ==
    [][ /\ Tick =>
            LET at == log'.swept.player.position
                near(q) == CloserThan(at, q.position, collision_radius)
                far(q) == ~near(q)
            IN  /\ \A k \in 1..Len(pellets) :
                       pellets[k].value = IF pellets[k].type = "power_up" THEN 50 ELSE 10
                /\ \A j, k \in 1..Len(pellets) :
                       j # k => pellets[j].position # pellets[k].position
                /\ log'.eaten = SelectSeq(pellets, near)
                /\ pellets' = SelectSeq(pellets, far)
                /\ log'.swept.player.score = player.score + SumValues(log'.eaten)
        /\ (~Tick /\ pellets' # pellets) =>
               /\ pellets' = get_pellets(InitMap(availableMaps, mapIndex'))
               /\ player'.score = 0 ]_vars

\* the player stands, in a tick that eats nothing, within the collision
\* radius of a cell whose pellet it ate before on this map
C6_Witness ==
    /\ log.op = "playing" /\ log.eaten = << >> /\ gstate = "PLAYING"
    /\ \E q \in RangeOf(get_pellets(InitMap(availableMaps, mapIndex))) :
           /\ q \notin RangeOf(pellets)
           /\ CloserThan(log.swept.player.position, q.position, collision_radius)
    /\ player.score >= 10

C9_LivesNonNegative ==
    /\ player.lives \in Nat
    /\ lose_life([player EXCEPT !.lives = 0]).lives = 0

\* three normal ghosts cost a life in the tick that began with two lives:
\* the third lose_life found the lives at 0
C9_Witness ==
    /\ gstate = "GAME_OVER" /\ player.lives = 0
    /\ log.op = "playing" /\ Len(log.life_lost) = 3 /\ log.resets = 1

\* a step within a campaign: from the first map's start to defeat or victory
CampaignStep ==
    /\ gstate \in {"PLAYING", "PAUSED", "INTERMISSION"}
    /\ gstate' \in {"PLAYING", "PAUSED", "INTERMISSION", "VICTORY", "GAME_OVER"}

NextMapStarts == gstate = "INTERMISSION" /\ gstate' = "PLAYING"

\* C10 as stated: over a campaign, map transitions included, the score
\* never decreases from one step to the next.
C10_AsStated == [][ CampaignStep => player'.score >= player.score ]_vars

\* C10, amended: the score never decreases while a map is played; when the
\* next map starts the score restarts at 0, the finished map's score having
\* been added to the campaign total, which never decreases.
C10_ScorePerMap ==
    [][ CampaignStep =>
            /\ IF NextMapStarts
               THEN player'.score = 0 /\ campaignTotal' = campaignTotal
               ELSE player'.score >= player.score
            /\ campaignTotal' >= campaignTotal
            /\ (Tick /\ pellets' = << >>) =>
                   campaignTotal' = campaignTotal + player'.score ]_vars

\* the second map of a campaign is being played after a first map that scored
C10_Witness ==
    /\ gstate = "PLAYING" /\ mapIndex = 1
    /\ campaignTotal > 0 /\ player.score < campaignTotal

----------------------------------------------------------------------------
(* The Player object driven call by call: direction requests and           *)
(* Player.update, in any order, on a maze with a corridor one cell wide,   *)
(* its corners and a room two cells wide                                   *)

WalkFile ==
    [layout |-> << <<1, 1, 1, 1, 1, 1>>,
                   <<1, 0, 0, 0, 0, 1>>,
                   <<1, 0, 1, 0, 0, 1>>,
                   <<1, 0, 0, 0, 0, 1>>,
                   <<1, 1, 1, 1, 1, 1>> >>,
     difficulty |-> 0,
     spawn_positions |-> PlayerOnly(<<1, 1>>)]

InitWalk ==
    /\ availableMaps = << WalkFile >>
    /\ gstate = "PLAYING"
    /\ mapIndex = 0
    /\ campaignTotal = 0
    /\ map = InitMap(availableMaps, 0)
    /\ player = InitPlayer(map)
    /\ ghosts = InitGhosts(map)
    /\ pellets = get_pellets(map)
    /\ inputActive = FALSE
    /\ showSave = FALSE
    /\ log = NoLog
    /\ ticks = 0

\* player.direction = d: a direction request
WalkRequest(d) ==
    /\ player' = set_direction(player, d)
    /\ log' = [NoLog EXCEPT !.op = "direction"]
    /\ UNCHANGED <<gstate, availableMaps, mapIndex, campaignTotal, map, ghosts, pellets,
                   inputActive, showSave, ticks>>

\* values handed to the direction setter other than Direction members:
\* tuples (the five of Direction, others of length 2, one of length 3) and
\* values of other types (a string, a list, None)
AssignedValues ==
    {[kind |-> "tuple", items |-> t] :
        t \in {<<0, -1>>, <<0, 1>>, <<-1, 0>>, <<1, 0>>, <<0, 0>>, <<1, 1>>, <<0, 2>>, <<0, -1, 0>>}}
    \cup {[kind |-> k] : k \in {"str", "list", "NoneType"}}

\* player.direction = value, for a value of any type; log keeps the value
\* and whether the assignment was made or which error was raised
WalkAssign(value) ==
    /\ player' = direction_setter(player, value)
    /\ log' = [op |-> "direction", value |-> value, outcome |-> direction_setter_outcome(value)]
    /\ UNCHANGED <<gstate, availableMaps, mapIndex, campaignTotal, map, ghosts, pellets,
                   inputActive, showSave, ticks>>

\* player.update(delta_time, map)
WalkTick(delta) ==
    /\ player' = PlayerUpdate(player, delta, map)
    /\ log' = [NoLog EXCEPT !.op = "player_update", !.delta = delta]
    /\ UNCHANGED <<gstate, availableMaps, mapIndex, campaignTotal, map, ghosts, pellets,
                   inputActive, showSave, ticks>>

NextWalk ==
    \/ \E d \in Directions : WalkRequest(d)
    \/ \E value \in AssignedValues : WalkAssign(value)
    \/ \E delta \in Deltas : WalkTick(delta)

SpecWalk == InitWalk /\ [][NextWalk]_vars

\* the player's clearance box around pos (7 pixels each way on cells of 16
\* pixels) has its four corners in cells of the grid that are not walls
PlayerFits(pos) ==
    \A dx \in {-28, 28} : \A dy \in {-28, 28} :
        LET col == (pos[1] + dx) \div 64
            row == (pos[2] + dy) \div 64
        IN  /\ 0 <= row /\ row < Len(map.layout)
            /\ 0 <= col /\ col < Len(map.layout[1])
            /\ map.layout[row + 1][col + 1] # 1

PlayerTicked == log'.op = "player_update"

\* pos moved by the player's speed in direction d
Shifted(pos, d) ==
    CASE d = "UP" -> <<pos[1], pos[2] - player.speed>>
      [] d = "DOWN" -> <<pos[1], pos[2] + player.speed>>
      [] d = "LEFT" -> <<pos[1] - player.speed, pos[2]>>
      [] d = "RIGHT" -> <<pos[1] + player.speed, pos[2]>>
      [] OTHER -> pos

\* the player can step in direction d
Unobstructed(d) == d # "NONE" /\ PlayerFits(Shifted(player.position, d))

\* C11: from a position valid for the player kind, a direction request or a
\* Player.update leaves the position valid for the player kind; a tick moves
\* the player not at all or by exactly its speed along exactly one axis, and
\* a direction request does not move it.
C11_PlayerStaysValid ==
    [][ PlayerFits(player.position) =>
            /\ PlayerFits(player'.position)
            /\ IF PlayerTicked
               THEN \/ player'.position = player.position
                    \/ \E d \in Directions \ {"NONE"} :
                           player'.position = Shifted(player.position, d)
               ELSE player'.position = player.position ]_vars

\* the player stands off the centre lines of the cells, in the room
C11_Witness ==
    /\ log.op = "player_update"
    /\ PlayerFits(player.position)
    /\ player.position[1] % 64 # 32
    /\ player.position[2] % 64 # 32

\* C12: in one Player.update, a requested direction that differs from the
\* committed one and is unobstructed becomes the committed one and the player
\* steps in it; with the requested direction obstructed and the committed one
\* free the player steps in the committed one and the request stays; with
\* both obstructed the committed direction becomes NONE and the player stays.
\* Only a direction request changes the requested direction.
C12_TurnResolution ==
    [][ /\ PlayerTicked =>
            LET req == player.next_direction
                com == player.direction
            IN  /\ (req # com /\ Unobstructed(req)) =>
                       /\ player'.direction = req
                       /\ player'.position = Shifted(player.position, req)
                /\ (~Unobstructed(req) /\ Unobstructed(com)) =>
                       /\ player'.direction = com
                       /\ player'.position = Shifted(player.position, com)
                /\ (~Unobstructed(req) /\ ~Unobstructed(com)) =>
                       /\ player'.direction = "NONE"
                       /\ player'.position = player.position
                /\ player'.next_direction = req
        /\ player'.next_direction # player.next_direction => log'.op = "direction" ]_vars

\* the player was stopped by a wall, away from its spawn, with a turn queued
C12_Witness ==
    /\ log.op = "player_update"
    /\ player.direction = "NONE"
    /\ player.next_direction # "NONE"
    /\ player.position # get_spawn_position(map, "player")
    /\ \E d \in Directions : Unobstructed(d)

----------------------------------------------------------------------------
(* Map objects as the program constructs them: from a JSON file, from a    *)
(* manual layout, from the built-in maze.  The content of a file is a      *)
(* record with the layout and the metadata fields it gives.                *)

\* a path at which there is no file (and the value None of _original_map_path)
NoFile == [missing |-> TRUE]

\* Map._validate_map_json
validate_map_json(map_data) ==
    /\ "layout" \in DOMAIN map_data
    /\ Len(map_data.layout) > 0
    /\ \A i \in 1..Len(map_data.layout) :
           /\ Len(map_data.layout[i]) = Len(map_data.layout[1])
           /\ \A j \in 1..Len(map_data.layout[i]) : map_data.layout[i][j] \in 0..3

\* the value Map.load_from_json returns: the file exists, its structure is
\* valid and so are the dimensions of its layout
load_from_json_result(file) ==
    /\ "missing" \notin DOMAIN file
    /\ validate_map_json(file)
    /\ Len(file.layout[1]) > 0

\* the layout of Map.load_default_map, as written in the source
DefaultLayout ==
    << <<1,1,1,1,1,1,1,1,1,1,1,1,1,1,1,1,1,1,1,1,1,1,1,1,1,1,1,1,1,1,1,1,1,1,1>>,
       <<1,2,2,2,2,2,2,2,2,2,2,2,2,2,2,2,2,1,2,2,2,2,2,2,2,2,2,2,2,2,2,2,2,2,1>>,
       <<1,3,1,1,1,1,2,1,1,1,1,1,2,1,1,1,2,1,2,1,1,1,2,1,1,1,1,1,2,1,1,1,1,3,1>>,
       <<1,2,2,2,2,2,2,2,2,2,2,2,2,2,2,2,2,2,2,2,2,2,2,2,2,2,2,2,2,2,2,2,2,2,1>>,
       <<1,2,1,1,1,1,2,1,1,2,1,1,1,1,1,1,1,1,1,1,1,1,1,2,1,1,2,1,1,1,1,1,2,1>>,
       <<1,2,2,2,2,2,2,1,1,2,2,2,2,2,2,2,2,1,2,2,2,2,2,2,2,2,2,1,1,2,2,2,2,2,1>>,
       <<1,1,1,1,1,1,2,1,1,1,1,1,1,1,1,1,0,1,0,1,1,1,1,1,1,1,1,1,1,2,1,1,1,1,1>>,
       <<0,0,0,0,0,1,2,1,1,0,0,0,0,0,0,0,0,0,0,0,0,0,0,0,0,0,0,1,1,2,1,0,0,0,0>>,
       <<1,1,1,1,1,1,2,1,1,0,1,1,1,1,1,1,0,0,0,1,1,1,1,1,1,1,0,1,1,2,1,1,1,1,1>>,
       <<1,0,0,0,0,0,2,0,0,0,1,0,0,0,0,0,0,0,0,0,0,0,0,0,0,1,0,0,0,2,0,0,0,0,1>>,
       <<1,1,1,1,1,1,2,1,1,0,1,0,0,0,0,0,0,0,0,0,0,0,0,0,0,1,0,1,1,2,1,1,1,1,1>>,
       <<0,0,0,0,0,1,2,1,1,0,1,1,1,1,1,1,1,1,1,1,1,1,1,1,1,1,0,1,1,2,1,0,0,0,0>>,
       <<1,1,1,1,1,1,2,1,1,0,0,0,0,0,0,0,0,0,0,0,0,0,0,0,0,0,0,1,1,2,1,1,1,1,1>>,
       <<1,2,2,2,2,2,2,2,2,2,2,2,2,2,2,2,2,1,2,2,2,2,2,2,2,2,2,2,2,2,2,2,2,2,1>>,
       <<1,2,1,1,1,1,2,1,1,1,1,1,2,1,1,1,2,1,2,1,1,1,2,1,1,1,1,1,2,1,1,1,1,2,1>>,
       <<1,3,2,2,1,1,2,2,2,2,2,2,2,2,2,2,2,2,2,2,2,2,2,2,2,2,2,2,2,1,1,2,2,3,1>>,
       <<1,1,1,2,1,1,2,1,1,2,1,1,1,1,1,1,1,1,1,1,1,1,1,1,1,2,1,1,2,1,1,2,1,1,1>>,
       <<1,2,2,2,2,2,2,1,1,2,2,2,2,2,2,2,2,1,2,2,2,2,2,2,2,2,2,1,1,2,2,2,2,2,1>>,
       <<1,2,1,1,1,1,1,1,1,1,1,1,1,1,1,1,2,1,2,1,1,1,1,1,1,1,1,1,1,1,1,1,1,2,1>>,
       <<1,2,2,2,2,2,2,2,2,2,2,2,2,2,2,2,2,2,2,2,2,2,2,2,2,2,2,2,2,2,2,2,2,2,1>>,
       <<1,1,1,1,1,1,1,1,1,1,1,1,1,1,1,1,1,1,1,1,1,1,1,1,1,1,1,1,1,1,1,1,1,1,1>> >>

\* Map.load_default_map: the cell size is left as it is, the metadata has no
\* difficulty
load_default_map(m) ==
    [layout |-> DefaultLayout,
     cell_size |-> m.cell_size,
     difficulty |-> 50,
     spawn_positions |-> default_spawn_positions(m.cell_size),
     original_map_path |-> m.original_map_path]

\* Map.load_map / Map.load_from_json called on the Map object m: the object
\* afterwards.  A file that is missing or invalid leaves it as it was; a
\* layout of empty rows is taken over before the dimensions are refused.
load_map(m, file) ==
    IF "missing" \in DOMAIN file \/ ~validate_map_json(file) THEN m
    ELSE IF Len(file.layout[1]) = 0
    THEN [load_from_json(file) EXCEPT !.original_map_path = m.original_map_path]
    ELSE load_from_json(file)

\* Map.__init__ before the branch on layout_data
NewMap(cell_size) ==
    [layout |-> << >>, cell_size |-> cell_size, difficulty |-> 50,
     spawn_positions |-> << >>, original_map_path |-> NoFile]

\* Map(map_file_path = file): the built-in maze when the load fails
MapFromFile(file) ==
    IF load_from_json_result(file) THEN load_map(NewMap(base_sprite_size), file)
    ELSE load_default_map(load_map(NewMap(base_sprite_size), file))

\* Map(layout_data = layout, cell_size = cell_size): the layout is taken as given
MapFromLayout(layout, cell_size) ==
    [layout |-> layout, cell_size |-> cell_size, difficulty |-> 50,
     spawn_positions |-> default_spawn_positions(cell_size),
     original_map_path |-> NoFile]

\* Map.reset_map
reset_map(m) ==
    IF load_from_json_result(m.original_map_path) THEN load_map(m, m.original_map_path)
    ELSE load_default_map(load_map(m, m.original_map_path))

----------------------------------------------------------------------------
(* The Map object driven call by call: construction from files and from    *)
(* manual layouts, load_map, reset_map, and the queries is_wall and        *)
(* is_valid_position at probe positions                                    *)

\* a wall block of two by two cells inside a ring of free cells; the
\* metadata gives a difficulty above the range
BlockFile ==
    [layout |-> << <<1, 1, 1, 1, 1, 1>>,
                   <<1, 0, 0, 0, 0, 1>>,
                   <<1, 0, 1, 1, 0, 1>>,
                   <<1, 0, 1, 1, 0, 1>>,
                   <<1, 0, 0, 2, 0, 1>>,
                   <<1, 1, 1, 1, 1, 1>> >>,
     difficulty |-> 250,
     spawn_positions |-> << >>]

\* cells of 32 pixels; the metadata gives a difficulty below the range
WideFile ==
    [layout |-> << <<1, 1, 1, 1, 1>>,
                   <<1, 0, 0, 0, 1>>,
                   <<1, 0, 1, 0, 1>>,
                   <<1, 0, 0, 3, 1>>,
                   <<1, 1, 1, 1, 1>> >>,
     cell_size |-> 32,
     difficulty |-> -10,
     spawn_positions |-> << >>]

\* a file whose metadata gives no difficulty
PlainFile ==
    [layout |-> << <<1, 1, 1, 1>>,
                   <<1, 0, 2, 1>>,
                   <<1, 1, 1, 1>> >>,
     spawn_positions |-> << >>]

\* rows of different lengths: refused by _validate_map_json
RaggedFile ==
    [layout |-> << <<1, 1, 1, 1>>,
                   <<1, 0, 1>>,
                   <<1, 1, 1, 1>> >>,
     difficulty |-> 100,
     spawn_positions |-> << >>]

\* a cell code outside 0..3: refused by _validate_map_json
BadCellFile ==
    [layout |-> << <<1, 1, 1>>,
                   <<1, 7, 1>>,
                   <<1, 1, 1>> >>,
     difficulty |-> 100,
     spawn_positions |-> << >>]

\* no layout at all: refused by _validate_map_json
NoLayoutFile == [difficulty |-> 100, spawn_positions |-> << >>]

\* rows without cells: accepted by _validate_map_json, refused by _validate_dimensions
EmptyRowFile ==
    [layout |-> << << >>, << >> >>,
     cell_size |-> 32,
     difficulty |-> 100,
     spawn_positions |-> << >>]

MazeFiles == {BlockFile, WideFile, PlainFile, RaggedFile, BadCellFile, NoLayoutFile,
              EmptyRowFile, NoFile}

\* layouts handed to Map(layout_data = ...), which takes them unchecked
ManualLayouts ==
    { << <<1, 1, 1, 1>>, <<1, 0, 0, 1>>, <<1, 1, 1, 1>> >>,
      << <<1, 1, 1, 1>>, <<1, 0>>, <<1, 1, 1, 1>> >> }

\* the positions probed, in pixels: outside the grid on either side, in wall
\* and free cells of the small mazes, inside the wall block, in the built-in
\* maze at the end of its fifth row
ProbePositions ==
    { <<-8, 8>>, <<8, 8>>, <<24, 24>>, <<40, 40>>, <<48, 48>>, <<536, 56>>, <<550, 70>>,
      <<600, 400>> }

ProbeSizes == {16, 64}

Kinds == {"player", "ghost", "default"}

\* Game.__init__ where assets/maps holds no map: Map() falls back to the
\* built-in maze
InitMaze ==
    /\ availableMaps = << >>
    /\ gstate = "MENU"
    /\ mapIndex = 0
    /\ campaignTotal = 0
    /\ map = MapFromFile(NoFile)
    /\ player = InitPlayer(map)
    /\ ghosts = InitGhosts(map)
    /\ pellets = get_pellets(map)
    /\ inputActive = FALSE
    /\ showSave = FALSE
    /\ log = [op |-> "initialize_game", loaded |-> FALSE]
    /\ ticks = 0

\* Game._initialize_game with the map file at the current index
MazeInitializeGame(file) ==
    /\ \E m \in {MapFromFile(file)} :
           /\ map' = m
           /\ player' = InitPlayer(m)
           /\ ghosts' = InitGhosts(m)
           /\ pellets' = get_pellets(m)
    /\ log' = [op |-> "initialize_game", loaded |-> load_from_json_result(file)]
    /\ UNCHANGED <<gstate, availableMaps, mapIndex, campaignTotal, inputActive, showSave, ticks>>

\* Map(layout_data = layout, cell_size = cell_size)
MazeFromLayout(layout, cell_size) ==
    /\ map' = MapFromLayout(layout, cell_size)
    /\ log' = [op |-> "layout_data"]
    /\ UNCHANGED <<gstate, availableMaps, mapIndex, campaignTotal, player, ghosts, pellets,
                   inputActive, showSave, ticks>>

\* map.load_map(file)
MazeLoad(file) ==
    /\ map' = load_map(map, file)
    /\ log' = [op |-> "load_map", loaded |-> load_from_json_result(file)]
    /\ UNCHANGED <<gstate, availableMaps, mapIndex, campaignTotal, player, ghosts, pellets,
                   inputActive, showSave, ticks>>

\* map.reset_map()
MazeReset ==
    /\ map' = reset_map(map)
    /\ log' = [op |-> "reset_map"]
    /\ UNCHANGED <<gstate, availableMaps, mapIndex, campaignTotal, player, ghosts, pellets,
                   inputActive, showSave, ticks>>

\* map.is_wall(pos)
MazeIsWall(pos) ==
    /\ log' = [op |-> "is_wall", pos |-> pos, outcome |-> is_wall_outcome(map, pos)]
    /\ UNCHANGED <<gstate, availableMaps, mapIndex, campaignTotal, map, player, ghosts, pellets,
                   inputActive, showSave, ticks>>

\* map.is_valid_position(pos, object_size, kind)
MazeIsValidPosition(pos, object_size, kind) ==
    /\ log' = [op |-> "is_valid_position", pos |-> pos, object_size |-> object_size,
               kind |-> kind,
               outcome |-> is_valid_position_outcome(map, pos, object_size, kind)]
    /\ UNCHANGED <<gstate, availableMaps, mapIndex, campaignTotal, map, player, ghosts, pellets,
                   inputActive, showSave, ticks>>

NextMaze ==
    \/ \E file \in MazeFiles : MazeInitializeGame(file)
    \/ \E layout \in ManualLayouts : \E cell_size \in {16, 32} : MazeFromLayout(layout, cell_size)
    \/ \E file \in MazeFiles : MazeLoad(file)
    \/ MazeReset
    \/ \E p \in ProbePositions : MazeIsWall(<<Px(p[1]), Px(p[2])>>)
    \/ \E p \in ProbePositions : \E s \in ProbeSizes : \E k \in Kinds :
           MazeIsValidPosition(<<Px(p[1]), Px(p[2])>>, s, k)

SpecMaze == InitMaze /\ [][NextMaze]_vars

\* the grid cell (0-based row and column) of a position
GridRow(pos) == pos[2] \div (4 * map.cell_size)

GridCol(pos) == pos[1] \div (4 * map.cell_size)

\* the cell of pos is outside the grid of width x height cells
OutsideGrid(pos) ==
    \/ GridRow(pos) < 0 \/ GridRow(pos) >= Len(map.layout)
    \/ GridCol(pos) < 0 \/ GridCol(pos) >= Len(map.layout[1])

\* the cell of pos has a code and the code is wall
WallCode(pos) ==
    /\ GridCol(pos) < Len(map.layout[GridRow(pos) + 1])
    /\ map.layout[GridRow(pos) + 1][GridCol(pos) + 1] = 1

\* pos is a wall as is_wall is said to see it
SaidWall(pos) == OutsideGrid(pos) \/ WallCode(pos)

\* C13: on every maze a Map holds, a call of is_wall returns a boolean: True
\* when the cell of the position is outside the grid, otherwise True exactly
\* when the code of the cell is 1.
C13_IsWallTotal ==
    log.op = "is_wall" =>
        log.outcome = (IF SaidWall(log.pos) THEN "True" ELSE "False")

\* C14: all rows of the maze a Map holds have the length that is the Map's width.
C14_RowsHaveWidth ==
    \A i \in 1..Len(map.layout) : Len(map.layout[i]) = MapWidth(map)

\* C15: after a successful load the difficulty the Map exposes lies in
\* 0..200, and so does the level the ghosts were given at map load.
C15_DifficultyInRange ==
    (log.op = "initialize_game" /\ log.loaded) =>
        /\ map.difficulty \in 0..MaxLevel
        /\ \A i \in 1..Len(ghosts) : ghosts[i].difficulty_level \in 0..MaxLevel

\* the corners of the clearance box of the call logged
LoggedCorners == corners(log.pos, half_size(log.object_size, log.kind))

\* the position lies in a block of wall cells, two by two cells or more,
\* of the grid
InThickWall(pos) ==
    /\ ~OutsideGrid(pos)
    /\ \E dr \in {-1, 0} : \E dc \in {-1, 0} :
           \A r \in {GridRow(pos) + dr, GridRow(pos) + dr + 1} :
               \A c \in {GridCol(pos) + dc, GridCol(pos) + dc + 1} :
                   /\ r >= 0 /\ r < Len(map.layout)
                   /\ c >= 0 /\ c < Len(map.layout[r + 1])
                   /\ map.layout[r + 1][c + 1] = 1

\* C16: a call of is_valid_position returns True exactly when none of the
\* four corners of the clearance box is a wall, and returns False for a
\* position inside a wall block of two by two cells or more.
C16_ValidIffCornersFree ==
    log.op = "is_valid_position" =>
        /\ log.outcome = (IF \E i \in 1..4 : SaidWall(LoggedCorners[i]) THEN "False" ELSE "True")
        /\ InThickWall(log.pos) => log.outcome = "False"

----------------------------------------------------------------------------
(* AStar.find_path called on the mazes the program holds: the call is       *)
(* drawn at the start (start, goal, heuristic), the only step is the call  *)

\* a room of four by four cells: many shortest paths between two cells
OpenFile ==
    [layout |-> << <<1, 1, 1, 1, 1, 1>>,
                   <<1, 0, 0, 0, 0, 1>>,
                   <<1, 0, 0, 0, 0, 1>>,
                   <<1, 0, 0, 0, 0, 1>>,
                   <<1, 0, 0, 0, 0, 1>>,
                   <<1, 1, 1, 1, 1, 1>> >>,
     difficulty |-> 50,
     spawn_positions |-> << >>]

\* corridors with a wall between neighbouring cells, so that the straight
\* line misleads, and a free cell walled off from the rest
DetourFile ==
    [layout |-> << <<1, 1, 1, 1, 1, 1, 1, 1, 1>>,
                   <<1, 0, 0, 0, 1, 0, 1, 0, 1>>,
                   <<1, 0, 1, 1, 1, 0, 1, 1, 1>>,
                   <<1, 0, 0, 0, 0, 0, 1, 1, 1>>,
                   <<1, 1, 1, 1, 1, 1, 1, 1, 1>> >>,
     difficulty |-> 50,
     spawn_positions |-> << >>]

\* two ways round to a goal in a pocket: the shorter one sets out away from it
LoopFile ==
    [layout |-> << <<1, 1, 1, 1, 1, 1, 1, 1, 1>>,
                   <<1, 0, 0, 0, 0, 0, 0, 0, 1>>,
                   <<1, 0, 1, 1, 1, 1, 1, 0, 1>>,
                   <<1, 0, 1, 0, 0, 0, 1, 0, 1>>,
                   <<1, 0, 1, 1, 1, 0, 1, 0, 1>>,
                   <<1, 0, 0, 0, 0, 0, 0, 0, 1>>,
                   <<1, 1, 1, 1, 1, 1, 1, 1, 1>> >>,
     difficulty |-> 50,
     spawn_positions |-> << >>]

SearchFiles == {OpenFile, DetourFile, LoopFile, WideFile}

Heuristics == {"manhattan", "euclidean", "diagonal"}

\* the centres of all cells of the grid (wall cells too)
CellCentres(m) ==
    {CellCentre(m, c, r) : c \in 0..(MapWidth(m) - 1), r \in 0..(MapHeight(m) - 1)}

\* the searches explored on the small mazes start in the first StartRows rows
StartRows == 3

\* the centres of the cells of the first StartRows rows (wall cells too)
StartCentres(m) ==
    {CellCentre(m, c, r) : c \in 0..(MapWidth(m) - 1), r \in 0..(Min2(StartRows, MapHeight(m)) - 1)}

\* the calls explored on a maze m.  On the small mazes: from the cell
\* centres of the first rows and from a point off the centres, to every cell centre, to a
\* goal 4 pixels off a centre and to a goal midway between two centres.
\* On the built-in maze: between corridor cells near the corner; to the
\* corridor cell before the end of the fifth row from the corridor cell
\* above the end and from the wall cell at the end; from that wall cell to
\* the wall cell in the corner.
Calls(m) ==
    IF MapHeight(m) > 10
    THEN [start : {<<Px(24), Px(24)>>}, goal : {<<Px(88), Px(56)>>},
          heuristic_type : Heuristics]
         \cup [start : {<<Px(536), Px(56)>>, <<Px(536), Px(72)>>}, goal : {<<Px(520), Px(72)>>},
               heuristic_type : Heuristics]
         \cup [start : {<<Px(536), Px(72)>>}, goal : {<<Px(8), Px(8)>>},
               heuristic_type : Heuristics]
    ELSE [start : StartCentres(m) \cup {<<Px(27), Px(26)>>},
          goal : CellCentres(m)
                     \cup {<<CellCentre(m, 1, 1)[1] + Px(4), CellCentre(m, 1, 1)[2]>>,
                           <<CellCentre(m, 1, 1)[1] + Px(8), CellCentre(m, 1, 1)[2]>>},
          heuristic_type : Heuristics]

\* Game.__init__ with one map file, or with none (the built-in maze), and
\* the call of find_path about to be made
InitSearch ==
    /\ availableMaps \in {<<f>> : f \in SearchFiles} \cup {<< >>}
    /\ gstate = "MENU"
    /\ mapIndex = 0
    /\ campaignTotal = 0
    /\ map = MapFromFile(IF Len(availableMaps) = 0 THEN NoFile ELSE availableMaps[1])
    /\ player = InitPlayer(map)
    /\ ghosts = InitGhosts(map)
    /\ pellets = get_pellets(map)
    /\ inputActive = FALSE
    /\ showSave = FALSE
    /\ \E c \in Calls(map) :
           log = [op |-> "call", start |-> c.start, goal |-> c.goal,
                  heuristic_type |-> c.heuristic_type]
    /\ ticks = 0

\* the record of a call of find_path that has ended
Ended(call, r) ==
    [op |-> "find_path", start |-> call.start, goal |-> call.goal,
     heuristic_type |-> call.heuristic_type,
     outcome |-> r.outcome, path |-> r.path, pops |-> r.pops]

\* AStar.find_path(start, goal, game_map, heuristic_type)
SearchReturn ==
    /\ log.op = "call"
    /\ log' = Ended(log, find_path_call(log.start, log.goal, map, log.heuristic_type))
    /\ UNCHANGED <<gstate, availableMaps, mapIndex, campaignTotal, map, player, ghosts, pellets,
                   inputActive, showSave, ticks>>

NextSearch == SearchReturn

SpecSearch == InitSearch /\ [][NextSearch]_vars

\* the cell at 0-based (row, col) has a code and the code is not wall
FreeCell(row, col) ==
    /\ row >= 0 /\ row < Len(map.layout)
    /\ col >= 0 /\ col < Len(map.layout[row + 1])
    /\ map.layout[row + 1][col + 1] # 1

\* a ghost fits at pos: the corners 5 pixels each way lie in free cells
GhostFits(pos) ==
    \A dx \in {-20, 20} : \A dy \in {-20, 20} :
        FreeCell((pos[2] + dy) \div (4 * map.cell_size), (pos[1] + dx) \div (4 * map.cell_size))

\* the points one step of s quarter pixels away from a point of ps, along one axis
StepsFrom(ps, s) ==
    UNION {{<<p[1], p[2] - s>>, <<p[1], p[2] + s>>, <<p[1] - s, p[2]>>, <<p[1] + s, p[2]>>} :
              p \in ps}

\* breadth-first search: the points reached from the frontier by steps of s
\* into positions where a ghost fits, seen being those reached already
RECURSIVE Flood(_, _, _)
Flood(frontier, seen, s) ==
    IF frontier = {} THEN seen
    ELSE Flood({q \in StepsFrom(frontier, s) : q \notin seen /\ GhostFits(q)},
               seen \cup {q \in StepsFrom(frontier, s) : GhostFits(q)}, s)

\* the points reachable from start by ghost-valid steps of 16 pixels (start included)
Reach(start) == Flood({start}, {start}, 64)

\* breadth-first search: the least number of steps of s from the frontier
\* (n steps from the start) to target, -1 when there is no way
RECURSIVE StepsTo(_, _, _, _, _)
StepsTo(frontier, seen, target, s, n) ==
    IF target \in frontier THEN n
    ELSE IF frontier = {} THEN -1
    ELSE StepsTo({q \in StepsFrom(frontier, s) : q \notin seen /\ GhostFits(q)},
                 seen \cup {q \in StepsFrom(frontier, s) : GhostFits(q)},
                 target, s, n + 1)

\* consecutive waypoints of path differ by exactly s along exactly one axis
StepsOf(path, s) ==
    \A i \in 1..(Len(path) - 1) :
        \/ path[i + 1][1] = path[i][1] /\ Abs(path[i + 1][2] - path[i][2]) = s
        \/ path[i + 1][2] = path[i][2] /\ Abs(path[i + 1][1] - path[i][1]) = s

\* pos is the centre of a cell of the maze
AtCellCentre(pos) ==
    /\ pos[1] % (4 * map.cell_size) = 2 * map.cell_size
    /\ pos[2] % (4 * map.cell_size) = 2 * map.cell_size

\* C17: on a maze with cell size 16, for a start and a goal at cell centres
\* with the goal cell reachable from the start cell through 4-connected
\* cells in which a ghost fits (the start cell being one of them), find_path
\* returns a non-empty path that begins at the start, goes by steps of
\* exactly 16 pixels along one axis, has every waypoint after the first at a
\* position valid for a ghost, and ends less than 8 pixels from the goal.
C17_PathToReachableGoal ==
    ( /\ log.op = "find_path"
      /\ map.cell_size = 16
      /\ AtCellCentre(log.start) /\ AtCellCentre(log.goal)
      /\ GhostFits(log.start)
      /\ log.goal \in Reach(log.start) ) =>
        /\ log.outcome = "returned"
        /\ Len(log.path) > 0
        /\ log.path[1] = log.start
        /\ StepsOf(log.path, 64)
        /\ \A i \in 2..Len(log.path) : GhostFits(log.path[i])
        /\ DistSq(log.path[Len(log.path)], log.goal) < 32 * 32

\* a path around a wall: more steps than the distance between start and goal
C17_Witness ==
    /\ log.op = "find_path"
    /\ map.cell_size = 16
    /\ AtCellCentre(log.start) /\ AtCellCentre(log.goal)
    /\ GhostFits(log.start)
    /\ log.goal \in Reach(log.start)
    /\ 64 * (Len(log.path) - 1) > manhattan_distance_to(log.start, log.goal)

\* C18: a call of find_path ends after popping at most four nodes for each
\* point of the start's lattice that can be reached and one for the start;
\* when no point that can be reached from the start by ghost-valid steps of
\* 16 pixels lies less than 8 pixels from the goal, it returns, raising no
\* error, and the path returned is empty.
C18_EndsAndEmptyWhenNoWay ==
    log.op = "find_path" =>
        /\ log.pops <= 4 * Cardinality(Reach(log.start)) + 1
        /\ (\A q \in Reach(log.start) : DistSq(q, log.goal) >= 32 * 32) =>
               /\ log.outcome = "returned"
               /\ log.path = << >>

\* C19: a non-empty path returned has as many steps as the least number of
\* ghost-valid steps of 16 pixels from the start to the path's end point,
\* whichever of the three heuristics is used.
C19_PathIsShortest ==
    (log.op = "find_path" /\ log.outcome = "returned" /\ Len(log.path) > 0) =>
        Len(log.path) - 1 =
            StepsTo({log.start}, {log.start}, log.path[Len(log.path)], 64, 0)

\* a path found with the euclidean heuristic around a wall
C19_Witness ==
    /\ log.op = "find_path"
    /\ log.outcome = "returned"
    /\ log.heuristic_type = "euclidean"
    /\ Len(log.path) > 4
    /\ 64 * (Len(log.path) - 1) > manhattan_distance_to(log.start, log.goal)

\* C20: the consecutive waypoints of a path returned are one cell of the
\* maze apart, whatever the cell size of the maze.
C20_StepsAreOneCell ==
    (log.op = "find_path" /\ log.outcome = "returned") =>
        StepsOf(log.path, 4 * map.cell_size)

----------------------------------------------------------------------------
(* Properties of the ghost's vulnerability speed and of its mode timer,    *)
(* over the calls made on one ghost                                        *)

\* C27: a vulnerable ghost moves at its base speed less 1 pixel, after a
\* second power-up too, and a ghost that is not vulnerable moves at its base
\* speed (the speed it had before becoming vulnerable).
C27_VulnerableSpeed ==
    \A i \in 1..Len(ghosts) :
        ghosts[i].speed = IF ghosts[i].state = "vulnerable"
                          THEN GhostBaseSpeed - Px(1)
                          ELSE GhostBaseSpeed

\* the duration of the mode the ghost is in, at its difficulty
ModeDuration(g) ==
    IF g.current_mode = "patrol"
    THEN get_difficulty_adjusted_mode_timing(g).patrol
    ELSE get_difficulty_adjusted_mode_timing(g).chase

\* C28: a ghost starts in patrol mode with the mode timer at 0 and its mode
\* is always patrol or chase.  An update outside spawn-delay adds its
\* positive elapsed time to the mode timer; when the sum exceeds the duration
\* of the current mode the ghost switches to the other mode and the timer
\* restarts at 0, otherwise mode and sum are kept.  An update that leaves the
\* ghost in spawn-delay and set_vulnerable leave mode and timer alone.  The
\* timer never exceeds the duration of the mode, so a ghost that is only
\* ticked switches after finitely many ticks, again and again.
C28_ModeAlternates ==
    /\ ghosts[Subject].current_mode = "patrol"
    /\ ghosts[Subject].mode_timer = 0
    /\ [][ /\ ghosts'[Subject].current_mode \in {"patrol", "chase"}
           /\ ghosts[Subject].mode_timer <= ModeDuration(ghosts[Subject])
           /\ (log'.op = "update" /\ ~ghosts'[Subject].is_in_spawn_delay) =>
                  /\ log'.delta > 0
                  /\ IF ghosts[Subject].mode_timer + log'.delta > ModeDuration(ghosts[Subject])
                     THEN /\ ghosts'[Subject].current_mode # ghosts[Subject].current_mode
                          /\ ghosts'[Subject].mode_timer = 0
                     ELSE /\ ghosts'[Subject].current_mode = ghosts[Subject].current_mode
                          /\ ghosts'[Subject].mode_timer =
                                 ghosts[Subject].mode_timer + log'.delta
           /\ (\/ log'.op = "update" /\ ghosts'[Subject].is_in_spawn_delay
               \/ log'.op = "set_vulnerable") =>
                  /\ ghosts'[Subject].current_mode = ghosts[Subject].current_mode
                  /\ ghosts'[Subject].mode_timer = ghosts[Subject].mode_timer ]_vars

\* an update has just switched the ghost from chase back to patrol
C28_Witness ==
    /\ log.op = "update"
    /\ ~ghosts[Subject].is_in_spawn_delay
    /\ ghosts[Subject].current_mode = "patrol"
    /\ ghosts[Subject].mode_timer = 0

----------------------------------------------------------------------------
(* Properties of map loading *)

\* what a Map shows of its maze: grid, cell size, metadata and spawn set
\* (width and height are read off the grid)
MazeOf(m) ==
    [layout |-> m.layout, cell_size |-> m.cell_size, difficulty |-> m.difficulty,
     spawn_positions |-> m.spawn_positions]

\* C29: a load_map that returns False leaves grid, cell size, metadata and
\* spawn set of the Map as they were; a Map constructed with a file whose
\* load fails holds the built-in maze with the default cell size, the
\* metadata of the built-in maze and the default spawn set.
C29_NeverPartlyLoaded ==
    [][ /\ (log'.op = "load_map" /\ ~log'.loaded) => MazeOf(map') = MazeOf(map)
        /\ (log'.op = "initialize_game" /\ ~log'.loaded) =>
               MazeOf(map') = [layout |-> DefaultLayout,
                               cell_size |-> base_sprite_size,
                               difficulty |-> 50,
                               spawn_positions |-> default_spawn_positions(base_sprite_size)]
      ]_vars

----------------------------------------------------------------------------
(* Properties of the direction setter *)

\* the five tuples that are values of Direction members
DirectionTuples == {<<0, -1>>, <<0, 1>>, <<-1, 0>>, <<1, 0>>, <<0, 0>>}

\* C30: an assignment to the direction of a value that is neither a
\* Direction member nor one of the five direction tuples raises an error and
\* leaves the player as it was, committed and requested direction included;
\* an assignment of a direction tuple or of a Direction member changes
\* nothing but the requested direction, which becomes the member denoted.
C30_DirectionSetter ==
    [][ log'.op = "direction" =>
            IF "outcome" \in DOMAIN log'
            THEN IF log'.value.kind = "tuple" /\ log'.value.items \in DirectionTuples
                 THEN /\ log'.outcome = "set"
                      /\ DirVec(player'.next_direction) = log'.value.items
                      /\ player' = [player EXCEPT !.next_direction = player'.next_direction]
                 ELSE /\ log'.outcome \in {"ValueError", "TypeError"}
                      /\ player' = player
            ELSE /\ player'.next_direction \in Directions
                 /\ player' = [player EXCEPT !.next_direction = player'.next_direction] ]_vars

\* a tuple that is no direction was refused while the player was moving
\* with a turn queued
C30_Witness ==
    /\ log.op = "direction"
    /\ "outcome" \in DOMAIN log
    /\ log.outcome = "ValueError"
    /\ player.direction # "NONE"
    /\ player.next_direction # player.direction

----------------------------------------------------------------------------
(* The difficulty scaling driven call by call: set_difficulty with any     *)
(* level a map file can give, set_vulnerable with the duration it scales   *)

\* the levels handed to set_difficulty: the range 0..MaxLevel and levels
\* outside it on either side
Levels == (0..MaxLevel) \cup {-50, -1, MaxLevel + 1, MaxLevel + 50}

InitLevel ==
    /\ availableMaps = << YardFile >>
    /\ gstate = "PLAYING"
    /\ mapIndex = 0
    /\ campaignTotal = 0
    /\ map = InitMap(availableMaps, 0)
    /\ player = InitPlayer(map)
    /\ ghosts = InitGhosts(map)
    /\ pellets = get_pellets(map)
    /\ inputActive = FALSE
    /\ showSave = FALSE
    /\ log = [op |-> "initialize_game", level |-> map.difficulty]
    /\ ticks = 0

\* the three durations a ghost g derives from its difficulty
DurationsOf(g) ==
    [vulnerable |-> get_difficulty_adjusted_vulnerable_duration(g),
     patrol |-> get_difficulty_adjusted_mode_timing(g).patrol,
     chase |-> get_difficulty_adjusted_mode_timing(g).chase]

\* ghost.set_difficulty(level) on every ghost; log keeps the level and the
\* durations the subject derives afterwards
LevelSet(level) ==
    /\ ghosts' = [i \in 1..Len(ghosts) |-> set_difficulty(ghosts[i], level)]
    /\ log' = [op |-> "set_difficulty", level |-> level,
               durations |-> DurationsOf(set_difficulty(ghosts[Subject], level))]
    /\ UNCHANGED <<gstate, availableMaps, mapIndex, campaignTotal, map, player, pellets,
                   inputActive, showSave, ticks>>

\* ghost.set_vulnerable(8000) on every ghost
LevelPowerUp ==
    /\ ghosts' = [i \in 1..Len(ghosts) |-> set_vulnerable(ghosts[i])]
    /\ log' = [op |-> "set_vulnerable", level |-> log.level]
    /\ UNCHANGED <<gstate, availableMaps, mapIndex, campaignTotal, map, player, pellets,
                   inputActive, showSave, ticks>>

NextLevel ==
    \/ \E level \in Levels : LevelSet(level)
    \/ LevelPowerUp

SpecLevel == InitLevel /\ [][NextLevel]_vars

\* the durations of the subject had set_difficulty been called with level e
AtLevel(e) == DurationsOf(set_difficulty(ghosts[Subject], e))

\* C26: after set_difficulty(d) with d in 0..200 the vulnerability duration
\* lies in 1000..8000 ms, the patrol duration is at least 2000 ms and the
\* chase duration at most 40000 ms; no lower level of the range gives a
\* shorter vulnerability or patrol duration or a longer chase duration; and
\* at d = 200 the vulnerability and the patrol duration are strictly below
\* those of level 0.
C26_DurationsScale ==
    (log.op = "set_difficulty" /\ log.level \in 0..MaxLevel) =>
        /\ log.durations.vulnerable \in 1000..8000
        /\ log.durations.patrol >= 2000
        /\ log.durations.chase <= 40000
        /\ \A e \in 0..log.level :
               /\ AtLevel(e).vulnerable >= log.durations.vulnerable
               /\ AtLevel(e).patrol >= log.durations.patrol
               /\ AtLevel(e).chase <= log.durations.chase
        /\ log.level = MaxLevel =>
               /\ log.durations.vulnerable < AtLevel(0).vulnerable
               /\ log.durations.patrol < AtLevel(0).patrol

\* the highest level of the range was set: both floors are reached
C26_Witness ==
    /\ log.op = "set_difficulty"
    /\ log.level = MaxLevel
    /\ log.durations.vulnerable = 1000
    /\ log.durations.patrol = 2000
    /\ log.durations.chase > 15000

----------------------------------------------------------------------------
(* Ghost.choose_direction, the selection over the unobstructed directions  *)
(* by the straight-line distance to the target                             *)

\* the list possible_directions of choose_direction: the unobstructed
\* directions in the order UP, DOWN, LEFT, RIGHT, each with the (squared)
\* distance of the stepped position to the target
possible_directions_plain(g, m, target) ==
    LET all == << "UP", "DOWN", "LEFT", "RIGHT" >>
    IN  SelectSeq([i \in 1..4 |->
                      [dir |-> all[i],
                       key |-> DistSq(move(g.position, g.speed, all[i]), target)]],
                  LAMBDA e : can_move(g.position, g.speed, e.dir, m, "ghost"))

\* the choice of choose_direction from the list pd
choose_plain(g, pd) ==
    IF Len(pd) = 0 THEN "NONE"
    ELSE IF g.state = "vulnerable" THEN pd[ArgMax(pd)].dir
    ELSE pd[ArgMin(pd)].dir

\* Ghost.choose_direction
choose_direction(g, m, target) == choose_plain(g, possible_directions_plain(g, m, target))

----------------------------------------------------------------------------
(* The targeting and the direction choice of the ghosts called on their    *)
(* own: the four ghosts stand at one position of a maze in a drawn mode,   *)
(* state and direction, the player at another, facing a drawn direction;   *)
(* the steps are calls of get_target_position, choose_direction and        *)
(* choose_direction_advanced, the latter two with the target the ghost     *)
(* gets from get_target_position                                           *)

\* two corridors of one cell joined at both ends
AimFile ==
    [layout |-> << <<1, 1, 1, 1, 1, 1, 1>>,
                   <<1, 0, 0, 0, 0, 0, 1>>,
                   <<1, 0, 1, 1, 1, 0, 1>>,
                   <<1, 0, 0, 0, 0, 0, 1>>,
                   <<1, 1, 1, 1, 1, 1, 1>> >>,
     difficulty |-> 50,
     spawn_positions |-> << >>]

\* maze file, position of the ghosts and position of the player (pixels):
\* ghosts on the centre line of a corridor, at its upper edge, in its
\* corner; the player along the same corridor, around the corner, close by
AimSetups ==
    [file : {AimFile},
     gpos : {<<24, 24>>, <<40, 21>>, <<21, 21>>, <<72, 24>>, <<24, 40>>},
     ppos : {<<88, 24>>, <<24, 56>>, <<40, 24>>}]
    \cup
    [file : {WideFile},
     gpos : {<<48, 48>>, <<112, 80>>},
     ppos : {<<112, 48>>, <<48, 112>>}]

\* the draws explored for one call of choose_direction_advanced
AimDraws == {SteadyDraws, [r1 |-> 0, r2 |-> 0, k |-> 1]}

\* the ghost g as play leaves it at pos in the given mode and state, moving
\* in direction dir (a vulnerable ghost has the speed and the timer of
\* set_vulnerable)
Placed(g, pos, mode, state, dir) ==
    IF state = "vulnerable"
    THEN [set_vulnerable(g) EXCEPT !.position = pos, !.current_mode = mode,
                                   !.direction = dir, !.last_direction = dir]
    ELSE [g EXCEPT !.position = pos, !.current_mode = mode,
                   !.direction = dir, !.last_direction = dir]

InitAim ==
    \E s \in AimSetups : \E mode \in {"patrol", "chase"} : \E state \in {"normal", "vulnerable"} :
    \E dir \in Directions : \E pdir \in Directions :
        /\ availableMaps = << s.file >>
        /\ gstate = "PLAYING"
        /\ mapIndex = 0
        /\ campaignTotal = 0
        /\ map = InitMap(availableMaps, 0)
        /\ player = [InitPlayer(map) EXCEPT !.position = <<Px(s.ppos[1]), Px(s.ppos[2])>>,
                                            !.direction = pdir, !.next_direction = pdir]
        /\ ghosts = [i \in 1..Len(GhostTypes) |->
                        Placed(InitGhosts(map)[i], <<Px(s.gpos[1]), Px(s.gpos[2])>>,
                               mode, state, dir)]
        /\ pellets = get_pellets(map)
        /\ inputActive = FALSE
        /\ showSave = FALSE
        /\ log = [op |-> "placed"]
        /\ ticks = 0

\* the lists handed to get_target_position as other_ghosts: the ghosts of
\* the game ("all"), the same without the chaser ("no_chaser"), and none
GhostList(gs, which) ==
    IF which = "all" THEN gs
    ELSE IF which = "no_chaser" THEN SelectSeq(gs, LAMBDA g : g.ghost_type # "red")
    ELSE << >>

\* ghosts[i].get_target_position(player position, player direction, others)
AimTarget(i, which) ==
    /\ log' = [op |-> "get_target_position", ghost |-> i, others |-> GhostList(ghosts, which),
               target |-> get_target_position(ghosts[i], player.position, player.direction,
                                              GhostList(ghosts, which))]
    /\ UNCHANGED <<gstate, availableMaps, mapIndex, campaignTotal, map, player, ghosts,
                   pellets, inputActive, showSave, ticks>>

\* ghosts[i].choose_direction(map, target)
AimChoose(i) ==
    /\ log' = [op |-> "choose_direction", ghost |-> i,
               dir |-> choose_direction(ghosts[i], map,
                           get_target_position(ghosts[i], player.position, player.direction,
                                               ghosts))]
    /\ UNCHANGED <<gstate, availableMaps, mapIndex, campaignTotal, map, player, ghosts,
                   pellets, inputActive, showSave, ticks>>

\* ghosts[i].choose_direction_advanced(map, target) with the draws c
AimChooseAdvanced(i, c) ==
    /\ log' = [op |-> "choose_direction_advanced", ghost |-> i, draws |-> c,
               dir |-> choose_direction_advanced(ghosts[i], map,
                           get_target_position(ghosts[i], player.position, player.direction,
                                               ghosts), c)]
    /\ UNCHANGED <<gstate, availableMaps, mapIndex, campaignTotal, map, player, ghosts,
                   pellets, inputActive, showSave, ticks>>

NextAim ==
    \/ \E i \in GhostIndices : \E which \in {"all", "no_chaser", "none"} : AimTarget(i, which)
    \/ \E i \in GhostIndices : AimChoose(i)
    \/ \E i \in GhostIndices : \E c \in AimDraws : AimChooseAdvanced(i, c)

SpecAim == InitAim /\ [][NextAim]_vars

\* the point n cells of the maze ahead of the player, the way it faces
AheadOfPlayer(n) ==
    << player.position[1] + n * 4 * map.cell_size * DirVec(player.direction)[1],
       player.position[2] + n * 4 * map.cell_size * DirVec(player.direction)[2] >>

\* the positions of the chasers in a list of ghosts
ChaserPositions(gs) == {gs[k].position : k \in {j \in 1..Len(gs) : gs[j].ghost_type = "red"}}

\* the point halfway between a and b
Midpoint(a, b) == << (a[1] + b[1]) \div 2, (a[2] + b[2]) \div 2 >>

\* C23: get_target_position returns, in patrol mode, the current waypoint of
\* the ghost's patrol route; in chase mode the player's position for the
\* chaser (red); the point 4 maze cells ahead of the player for the ambusher
\* (pink); for the flanker (cyan) the midpoint between the point 2 maze cells
\* ahead of the player and the position of a chaser of the list, the
\* player's position if the list has no chaser; for the opportunist (orange)
\* the player's position if the player is more than 80 pixels away and the
\* point (50, 450) otherwise.
C23_TargetByPersonality ==
    log.op = "get_target_position" =>
        IF ghosts[log.ghost].current_mode = "patrol"
        THEN log.target = patrol_route(ghosts[log.ghost].ghost_type)
                              [(ghosts[log.ghost].patrol_index % 8) + 1]
        ELSE CASE ghosts[log.ghost].ghost_type = "red" -> log.target = player.position
               [] ghosts[log.ghost].ghost_type = "pink" -> log.target = AheadOfPlayer(4)
               [] ghosts[log.ghost].ghost_type = "cyan" ->
                      IF ChaserPositions(log.others) = {}
                      THEN log.target = player.position
                      ELSE \E red \in ChaserPositions(log.others) :
                               log.target = Midpoint(AheadOfPlayer(2), red)
               [] OTHER ->
                      log.target = IF DistSq(ghosts[log.ghost].position, player.position)
                                          > Px(80) * Px(80)
                                   THEN player.position
                                   ELSE <<Px(50), Px(450)>>

\* the ghost of the call logged
Chooser == ghosts[log.ghost]

\* the position of the chooser after a step in direction d
ChooserStep(d) ==
    << Chooser.position[1] + DirVec(d)[1] * Chooser.speed,
       Chooser.position[2] + DirVec(d)[2] * Chooser.speed >>

\* the directions in which the chooser can step
ChooserFree == {d \in Directions \ {"NONE"} : GhostFits(ChooserStep(d))}

\* C24: for a vulnerable ghost in chase mode with an unobstructed direction,
\* choose_direction and choose_direction_advanced return an unobstructed
\* direction whose step leaves the ghost at least as far from the player as
\* the step in any other unobstructed direction, by the straight-line or by
\* the Manhattan distance (hence never the one direction that brings it
\* closest).
C24_VulnerableFlees ==
    ( /\ log.op \in {"choose_direction", "choose_direction_advanced"}
      /\ Chooser.state = "vulnerable"
      /\ Chooser.current_mode = "chase"
      /\ ChooserFree # {} ) =>
        /\ log.dir \in ChooserFree
        /\ \/ \A d \in ChooserFree :
                  DistSq(ChooserStep(log.dir), player.position)
                      >= DistSq(ChooserStep(d), player.position)
           \/ \A d \in ChooserFree :
                  manhattan_distance_to(ChooserStep(log.dir), player.position)
                      >= manhattan_distance_to(ChooserStep(d), player.position)

----------------------------------------------------------------------------
(* The chaser steering towards the player: the red ghost stands in a maze  *)
(* in chase mode, moving in a drawn direction, the player at another       *)
(* place; the steps are updates of the ghost and calls of                  *)
(* astar_pathfinding on it.  log keeps the ghost as the step found it, the *)
(* target, whether the update ran the periodic A* decision, and the tick   *)
(* time accumulated since current_path was last computed (age).            *)

\* a corridor around a block, two cells wide in its lower right corner
ChaseFile ==
    [layout |-> << <<1, 1, 1, 1, 1, 1, 1, 1>>,
                   <<1, 0, 0, 0, 0, 0, 0, 1>>,
                   <<1, 0, 1, 1, 1, 1, 0, 1>>,
                   <<1, 0, 1, 1, 1, 1, 0, 1>>,
                   <<1, 0, 1, 1, 1, 0, 0, 1>>,
                   <<1, 0, 1, 1, 1, 0, 0, 1>>,
                   <<1, 0, 0, 0, 0, 0, 0, 1>>,
                   <<1, 1, 1, 1, 1, 1, 1, 1>> >>,
     difficulty |-> 200,
     spawn_positions |-> << >>]

\* the same maze at a difficulty at which the chaser does not always use A*
CalmFile == [ChaseFile EXCEPT !.difficulty = 10]

\* position of the chaser and of the player, in half pixels: the chaser one
\* cell above the player in the wide corner; at the start of the upper corridor
\* with the player three cells, and one cell, along it; off the centre line
\* at the corner of the corridor; close to the centre of the next cell
ChaseSetups ==
    { [gpos |-> <<200, 168>>, ppos |-> <<200, 200>>],
      [gpos |-> <<48, 48>>, ppos |-> <<144, 48>>],
      [gpos |-> <<48, 48>>, ppos |-> <<94, 48>>],
      [gpos |-> <<53, 60>>, ppos |-> <<144, 48>>],
      [gpos |-> <<60, 48>>, ppos |-> <<94, 48>>] }

\* the chaser always uses A* on ChaseFile; on CalmFile, where it does not,
\* it starts above the player, or in the upper left corner of the corridor
\* just below the centre line; at the start of the upper corridor it is
\* also met vulnerable
ChaseStarts ==
    { [file |-> ChaseFile, gpos |-> s.gpos, ppos |-> s.ppos, dir |-> d, state |-> "normal"] :
          s \in ChaseSetups, d \in {"NONE", "RIGHT"} }
    \cup { [file |-> CalmFile, gpos |-> <<200, 168>>, ppos |-> <<200, 200>>, dir |-> d,
            state |-> "normal"] : d \in {"NONE", "UP", "DOWN"} }
    \cup { [file |-> CalmFile, gpos |-> <<48, 52>>, ppos |-> <<144, 48>>, dir |-> "RIGHT",
            state |-> "normal"] }
    \cup { [file |-> ChaseFile, gpos |-> <<48, 48>>, ppos |-> <<144, 48>>, dir |-> d,
            state |-> "vulnerable"] : d \in {"NONE", "RIGHT"} }

\* calls per run
ChaseTicks == 4

ChaseDeltas == {60, 210}

\* the draws explored for one update of the chaser
ChaseDraws ==
    { [astar |-> a, c1 |-> c, c2 |-> c] :
          a \in {0, 99}, c \in {SteadyDraws, [r1 |-> 0, r2 |-> 0, k |-> 1]} }

\* the ghost driven: red, first of ghost_configs
Chaser == CHOOSE i \in 1..Len(GhostTypes) : GhostTypes[i] = "red"

InitChase ==
    \E s \in ChaseStarts :
        /\ availableMaps = << s.file >>
        /\ gstate = "PLAYING"
        /\ mapIndex = 0
        /\ campaignTotal = 0
        /\ map = InitMap(availableMaps, 0)
        /\ player = [InitPlayer(map) EXCEPT !.position = <<HalfPx(s.ppos[1]), HalfPx(s.ppos[2])>>]
        /\ ghosts = [InitGhosts(map) EXCEPT
                        ![Chaser] = Placed(@, <<HalfPx(s.gpos[1]), HalfPx(s.gpos[2])>>,
                                           "chase", s.state, s.dir)]
        /\ pellets = get_pellets(map)
        /\ inputActive = FALSE
        /\ showSave = FALSE
        /\ log = [op |-> "placed", age |-> 0]
        /\ ticks = 0

\* Ghost.update, line 731 reached and its condition true for the ghost g
\* with the draw r of should_use_astar: the periodic decision asks
\* astar_pathfinding
periodic_astar(g, delta, target, r) ==
    /\ should_use_astar(g, target, r)
    /\ Sat(g.recalculate_path_timer + delta) > AstarInterval

\* ghost.update(delta_time, player position, player direction, map, ghosts)
\* on the chaser
ChaseTick(delta, rnd) ==
    /\ ticks < ChaseTicks
    /\ ticks' = ticks + 1
    /\ \E r \in {GhostUpdate(ghosts[Chaser], delta, player.position, player.direction,
                             map, ghosts, rnd)} :
        /\ ghosts' = [ghosts EXCEPT ![Chaser] = r.g]
        /\ log' = [op |-> "update", delta |-> delta, before |-> ghosts[Chaser],
                   target |-> get_target_position(ghosts[Chaser], player.position,
                                                  player.direction, ghosts),
                   periodic |-> periodic_astar(ghosts[Chaser], delta,
                                    get_target_position(ghosts[Chaser], player.position,
                                                        player.direction, ghosts),
                                    rnd.astar),
                   searches |-> r.searches,
                   aged |-> log.age + delta,
                   age |-> IF r.searches > 0 THEN 0 ELSE log.age + delta]
    /\ UNCHANGED <<gstate, availableMaps, mapIndex, campaignTotal, map, player, pellets,
                   inputActive, showSave>>

\* the targets handed to astar_pathfinding: the player's position, the
\* lower left corner of the corridor, or a point of its upper left corner
SteerTarget(which) ==
    CASE which = "player" -> player.position
      [] which = "corner" -> <<Px(24), Px(104)>>
      [] OTHER -> <<Px(28), Px(24)>>

\* ghost.astar_pathfinding(map, target) on the chaser with the draws c
ChaseSteer(which, c) ==
    /\ ticks < ChaseTicks
    /\ ticks' = ticks + 1
    /\ \E r \in {astar_pathfinding(ghosts[Chaser], map, SteerTarget(which), c)} :
        /\ ghosts' = [ghosts EXCEPT ![Chaser] = r.g]
        /\ log' = [op |-> "astar_pathfinding", before |-> ghosts[Chaser],
                   target |-> SteerTarget(which), draws |-> c, dir |-> r.dir,
                   searches |-> r.searches,
                   age |-> IF r.searches > 0 THEN 0 ELSE log.age]
    /\ UNCHANGED <<gstate, availableMaps, mapIndex, campaignTotal, map, player, pellets,
                   inputActive, showSave>>

NextChase ==
    \/ \E delta \in ChaseDeltas : \E rnd \in ChaseDraws : ChaseTick(delta, rnd)
    \/ \E which \in {"player", "corner", "start"} : \E c \in AimDraws : ChaseSteer(which, c)

SpecChase == InitChase /\ [][NextChase]_vars

\* C21: an update of the chaser whose periodic decision asks astar_pathfinding
\* computes a new path whenever the cached path is empty, its cursor stands
\* at the last waypoint, the target lies more than 32 pixels from the target
\* the path was computed for, or the tick time accumulated since the path
\* was computed exceeds the recompute interval astar_frequency of the ghost;
\* so no such update keeps a path older than that interval.
C21_StalePathRecomputed ==
    ( /\ log.op = "update"
      /\ log.periodic
      /\ \/ Len(log.before.current_path) = 0
         \/ log.before.path_index >= Len(log.before.current_path) - 1
         \/ /\ log.before.last_target # NoTarget
            /\ FartherThan(log.before.last_target, log.target, Px(32))
         \/ log.aged > log.before.astar_frequency ) =>
        /\ log.searches >= 1
        /\ log.age = 0

\* the position of the ghost g after a step in direction d
StepOf(g, d) ==
    << g.position[1] + DirVec(d)[1] * g.speed, g.position[2] + DirVec(d)[2] * g.speed >>

\* the path the logged call of astar_pathfinding followed and the cursor it
\* started from (0 on a path just computed)
SteerPath == ghosts[Chaser].current_path

SteerCursor == IF log.searches > 0 THEN 0 ELSE log.before.path_index

\* the path has a waypoint after the cursor
SteerHasNext == Len(SteerPath) > 0 /\ SteerCursor < Len(SteerPath) - 1

\* the ghost is less than 12 pixels from the waypoint after the cursor
SteerNear ==
    SteerHasNext /\ DistSq(log.before.position, SteerPath[SteerCursor + 2]) < Px(12) * Px(12)

\* the cursor advances onto the last waypoint: none is left to follow
SteerLast == SteerNear /\ SteerCursor + 1 >= Len(SteerPath) - 1

\* the waypoint the ghost is steered to
SteerWaypoint == SteerPath[IF SteerNear THEN SteerCursor + 3 ELSE SteerCursor + 2]

\* the direction from pos to w along the axis of the larger difference (the
\* vertical one when they are equal), its sign giving the side
DominantAxis(pos, w) ==
    LET dx == w[1] - pos[1]
        dy == w[2] - pos[2]
        ax == IF dx < 0 THEN -dx ELSE dx
        ay == IF dy < 0 THEN -dy ELSE dy
    IN  IF ax > ay THEN (IF dx > 0 THEN "RIGHT" ELSE "LEFT")
        ELSE (IF dy > 0 THEN "DOWN" ELSE "UP")

\* the steered direction exists and the step in it is unobstructed
SteerFree ==
    /\ SteerHasNext
    /\ ~SteerLast
    /\ GhostFits(StepOf(log.before, DominantAxis(log.before.position, SteerWaypoint)))

\* what choose_direction_advanced chooses for the ghost with the draws of the call
SteerFallback == choose_direction_advanced(ghosts[Chaser], map, log.target, log.draws)

\* C22 as stated: astar_pathfinding advances the cursor by one when the
\* ghost is less than 12 pixels from the next waypoint and returns the
\* dominant-axis direction to the next waypoint when the step in it is
\* unobstructed; in every other case, no waypoint left to follow included,
\* it returns the choice of choose_direction_advanced.
C22_AsStated ==
    log.op = "astar_pathfinding" =>
        /\ ghosts[Chaser].path_index = IF SteerNear THEN SteerCursor + 1 ELSE SteerCursor
        /\ log.dir = IF SteerFree
                     THEN DominantAxis(log.before.position, SteerWaypoint)
                     ELSE SteerFallback

\* C22: astar_pathfinding advances the cursor by one when the ghost is less
\* than 12 pixels from the next waypoint; when that advance puts the cursor
\* on the last waypoint it returns NONE; otherwise it returns the
\* dominant-axis direction to the next waypoint when the step in it is
\* unobstructed, and the choice of choose_direction_advanced when that step
\* is blocked, the path is empty or the cursor already stood at the last
\* waypoint.
C22_SteerAlongPath ==
    log.op = "astar_pathfinding" =>
        /\ ghosts[Chaser].path_index = IF SteerNear THEN SteerCursor + 1 ELSE SteerCursor
        /\ log.dir = IF SteerLast THEN "NONE"
                     ELSE IF SteerFree
                          THEN DominantAxis(log.before.position, SteerWaypoint)
                          ELSE SteerFallback

\* the cursor advanced onto the last waypoint of a path and NONE was
\* returned, where choose_direction_advanced would have chosen a direction
C22_Witness ==
    /\ log.op = "astar_pathfinding"
    /\ SteerLast
    /\ log.dir = "NONE"
    /\ SteerFallback # "NONE"

\* C25: an update of the chaser, in chase mode and not vulnerable, standing
\* at (100, 84) with the player at (100, 100) and the step towards the
\* player unobstructed, moves the ghost one step (of 1 pixel, or of its
\* speed) along one axis to a position it fits at, strictly closer to the
\* player, whatever the draws.
C25_ChaserCloses ==
    ( /\ log.op = "update"
      /\ log.before.position = <<Px(100), Px(84)>>
      /\ player.position = <<Px(100), Px(100)>>
      /\ log.before.current_mode = "chase"
      /\ log.before.state = "normal"
      /\ GhostFits(StepOf(log.before, "DOWN")) ) =>
        /\ \E d \in Directions \ {"NONE"} : \E s \in {Px(1), log.before.speed} :
               ghosts[Chaser].position =
                   << log.before.position[1] + DirVec(d)[1] * s,
                      log.before.position[2] + DirVec(d)[2] * s >>
        /\ GhostFits(ghosts[Chaser].position)
        /\ DistSq(ghosts[Chaser].position, player.position)
               < DistSq(log.before.position, player.position)

----------------------------------------------------------------------------
(* Pellet list and maze grid *)

\* the cell code under a pellet of the list
PelletCell(pellet) ==
    CellAt(map, CellOf(map, pellet.position[2]), CellOf(map, pellet.position[1]))

\* C33: in every state of active play the pellet list and the maze grid
\* agree: the list holds as many pellets as the grid has cells coded pellet
\* or power-up, and every listed pellet sits on such a cell
C33_PelletsMatchGrid ==
    gstate = "PLAYING" =>
        /\ Len(pellets) = count_pellets(map)
        /\ \A k \in 1..Len(pellets) : PelletCell(pellets[k]) \in {PELLET, POWER_UP}

\* a tick of play has eaten a pellet and left others
C33_Witness ==
    /\ gstate = "PLAYING"
    /\ log.op = "playing"
    /\ log.eaten # << >>
    /\ pellets # << >>

----------------------------------------------------------------------------
(* A campaign of one corridor with two power-ups, followed in ticks of half *)
(* a second: the player starts on one power-up, pink on the free cell to    *)
(* its right; the pellet in the pocket keeps the map from being cleared.    *)

ChainFile ==
    [layout |-> << <<1, 1, 1, 1, 1, 1, 1>>,
                   <<1, 3, 3, 0, 1, 2, 1>>,
                   <<1, 1, 1, 1, 1, 1, 1>> >>,
     difficulty |-> 50,
     spawn_positions |-> [n \in {"player", "ghost_pink"} |->
                              IF n = "player" THEN <<2, 1>> ELSE <<3, 1>>]]

ChainCatalogs == { << ChainFile >> }

\* elapsed times of one tick, in ms
ChainDeltas == {500}

\* Game.__init__ on the corridor
InitChain ==
    /\ availableMaps \in ChainCatalogs
    /\ gstate = "MENU"
    /\ mapIndex = 0
    /\ campaignTotal = 0
    /\ map = InitMap(availableMaps, 0)
    /\ player = InitPlayer(map)
    /\ ghosts = InitGhosts(map)
    /\ pellets = get_pellets(map)
    /\ inputActive = FALSE
    /\ showSave = FALSE
    /\ log = NoLog
    /\ ticks = 0

NextChain ==
    \/ MenuStart
    \/ \E d \in Directions \ {"NONE"} : KeyDirection(d)
    \/ \E delta \in ChainDeltas : \E rnd \in TickDraws : UpdatePlayingCounted(delta, rnd)

SpecChain == InitChain /\ [][NextChain]_vars

----------------------------------------------------------------------------
(* Spawn delay and vulnerability *)

\* C34: a ghost is never in spawn delay and vulnerable at the same time:
\* in every reachable state a ghost in spawn delay is in state normal and
\* moves at its base speed
C34_DelayedGhostNormal ==
    \A i \in GhostIndices :
        ghosts[i].is_in_spawn_delay =>
            /\ ghosts[i].state = "normal"
            /\ ghosts[i].speed = GhostBaseSpeed

\* the ghosts within the collision radius of the player in snapshot s
Contacts(s) == {i \in GhostIndices : Contact(s, i)}

\* C35: a ghost in spawn delay is harmless: a tick of active play with
\* pellets remaining in which every ghost within the collision radius of
\* the player is in spawn delay costs no life, resets no position and does
\* not end the game
C35_DelayedGhostHarmless ==
    [][ (/\ Tick /\ pellets' # << >>
         /\ Contacts(log'.swept) # {}
         /\ \A i \in Contacts(log'.swept) : log'.swept.ghosts[i].is_in_spawn_delay) =>
            /\ player'.lives = player.lives
            /\ log'.life_lost = << >>
            /\ log'.resets = 0
            /\ gstate' # "GAME_OVER" ]_vars

\* the normal ghosts within the collision radius of the player in snapshot s
NormalContacts(s) == {i \in Contacts(s) : s.ghosts[i].state = "normal"}

\* C36: on a map whose player spawn is at least the collision radius away
\* from every ghost spawn, one tick of active play reduces the lives by at
\* most one, however many normal ghosts touch the player
C36_OneLifePerTick ==
    [][ (Tick /\ SpawnsApart(map)) =>
            /\ player'.lives >= player.lives - 1
            /\ player'.lives <= player.lives ]_vars

\* a life was lost in a tick in which two normal ghosts touched the player
\* on a map with separated spawns
C36_Witness ==
    /\ log.op = "playing" /\ log.life_lost # << >>
    /\ SpawnsApart(map)
    /\ Cardinality(NormalContacts(log.swept)) >= 2

\* the same on the last life
C36_WitnessLast ==
    C36_Witness /\ player.lives = 0

----------------------------------------------------------------------------
(* The states without play *)

IdleStates == {"MENU", "OPTIONS", "HISTORY", "PAUSED", "GAME_OVER", "VICTORY"}

\* a step of Game.update
GameUpdate ==
    \/ UpdateIdle
    \/ \E e \in BOOLEAN : UpdateSaveConfirmation(e)
    \/ \E e \in BOOLEAN : UpdateIntermission(e)
    \/ \E delta \in Deltas : \E rnd \in TickDraws : UpdatePlaying(delta, rnd)

\* C39: in MENU, OPTIONS, HISTORY, PAUSED, GAME_OVER and VICTORY a tick
\* changes nothing of the player (position, direction, lives, score), of
\* the ghosts (position, state, mode, timers), of the pellet list and of
\* the maze
C39_IdleTickInert ==
    [][ (gstate \in IdleStates /\ GameUpdate) =>
            /\ player' = player
            /\ ghosts' = ghosts
            /\ pellets' = pellets
            /\ map' = map ]_vars

\* a tick has run in VICTORY: the name entry is open
C39_Witness ==
    /\ gstate = "VICTORY"
    /\ inputActive
    /\ ~showSave

\* the history screen is open after a game was played
C39_WitnessHistory ==
    /\ gstate = "HISTORY"
    /\ player.score > 0

----------------------------------------------------------------------------
(* Tactical mode and vulnerability *)

\* mode, mode timer, patrol index and position of ghost h are those of g
ModeFrame(g, h) ==
    /\ h.current_mode = g.current_mode
    /\ h.mode_timer = g.mode_timer
    /\ h.patrol_index = g.patrol_index
    /\ h.position = g.position

\* ghost g, had it never become vulnerable
NormalTwin(g) ==
    [g EXCEPT !.state = "normal", !.speed = GhostBaseSpeed, !.vulnerable_timer = 0]

\* the tactical phase of ghost h is that of ghost g
SamePhase(g, h) ==
    /\ h.current_mode = g.current_mode
    /\ h.mode_timer = g.mode_timer
    /\ h.patrol_index = g.patrol_index

\* C40: the tactical mode is independent of vulnerability.  set_vulnerable
\* leaves mode, mode timer, patrol index and position of every ghost as they
\* were; so does the vulnerability countdown of update, expiry included; and
\* an update outside the spawn delay advances the mode timer by the elapsed
\* time of the tick (or switches the mode and restarts the timer), the
\* tactical phase afterwards being what it would be had the ghost been normal
C40_ModeIndependent ==
    [][ /\ log'.op = "set_vulnerable" =>
               \A i \in GhostIndices : ModeFrame(ghosts[i], ghosts'[i])
        /\ (log'.op = "update" /\ ~SpawnDelayStep(ghosts[Subject], log'.delta).done) =>
               LET g == SpawnDelayStep(ghosts[Subject], log'.delta).g
                   h == ghosts'[Subject]
               IN  /\ ModeFrame(g, VulnerableStep(g, log'.delta))
                   /\ \/ h.current_mode = g.current_mode
                         /\ h.mode_timer = g.mode_timer + log'.delta
                      \/ h.current_mode # g.current_mode /\ h.mode_timer = 0
                   /\ \A rnd \in SubjectDraws :
                          SamePhase(GhostUpdate(NormalTwin(g), log'.delta, player.position,
                                                player.direction, map, ghosts, rnd).g, h)
      ]_vars

\* the vulnerability of the ghost has expired in the last update, in chase mode
C40_Witness ==
    /\ log.op = "update"
    /\ ghosts[Subject].state = "normal"
    /\ ghosts[Subject].vulnerable_timer < 0
    /\ ghosts[Subject].vulnerable_timer + log.delta > 0
    /\ ghosts[Subject].current_mode = "chase"

\* the ghost became vulnerable in the middle of a phase
C40_WitnessPowerUp ==
    /\ log.op = "set_vulnerable"
    /\ ghosts[Subject].state = "vulnerable"
    /\ ghosts[Subject].mode_timer > 0

----------------------------------------------------------------------------
(* Ghost positions *)

\* the position of ghost g is valid for the ghost kind
GhostPlaced(g) == is_valid_position(map, g.position, base_sprite_size, "ghost")

\* the spawn of ghost g is valid for the ghost kind
GhostSpawnValid(g) == is_valid_position(map, g.initial_position, base_sprite_size, "ghost")

\* q lies exactly s quarter pixels from p along one axis
OneStep(p, q, s) ==
    \/ q[1] = p[1] /\ (q[2] = p[2] + s \/ q[2] = p[2] - s)
    \/ q[2] = p[2] /\ (q[1] = p[1] + s \/ q[1] = p[1] - s)

\* C37: a ghost whose spawn is valid for the ghost kind is, after any
\* sequence of updates, vulnerability changes, captures and resets, at a
\* position valid for the ghost kind; an update leaves the position as it
\* was or moves it by exactly the ghost's speed along one axis, a
\* vulnerability change leaves it, and captures and resets put the ghost on
\* its spawn
C37_GhostStaysValid ==
    /\ GhostSpawnValid(ghosts[Subject]) => GhostPlaced(ghosts[Subject])
    /\ [][ \A i \in GhostIndices :
             /\ log'.op = "update" =>
                    \/ ghosts'[i].position = ghosts[i].position
                    \/ OneStep(ghosts[i].position, ghosts'[i].position, ghosts'[i].speed)
             /\ log'.op = "set_vulnerable" => ghosts'[i].position = ghosts[i].position
             /\ (log'.op = "set_eaten_with_delay" /\ i = Subject) =>
                    ghosts'[i].position = ghosts[i].initial_position
             /\ log'.op = "reset_position" =>
                    ghosts'[i].position = ghosts[i].initial_position
             /\ GhostSpawnValid(ghosts[i]) /\ GhostPlaced(ghosts[i]) => GhostPlaced(ghosts'[i])
       ]_vars

\* the ghost has stopped in front of a wall away from its spawn: a further
\* step in its direction is not valid
C37_Witness ==
    /\ log.op = "update"
    /\ GhostSpawnValid(ghosts[Subject])
    /\ ghosts[Subject].position # ghosts[Subject].initial_position
    /\ ghosts[Subject].direction # "NONE"
    /\ ~can_move(ghosts[Subject].position, ghosts[Subject].speed,
                 ghosts[Subject].direction, map, "ghost")

----------------------------------------------------------------------------
(* The vulnerable chaser *)

\* the directions in which the chaser, as the logged update found it, can
\* take a step of its speed
FleeFree == {d \in Directions \ {"NONE"} : GhostFits(StepOf(log.before, d))}

\* the logged update found the chaser vulnerable and in chase mode and left
\* it so
VulnerableChase ==
    /\ log.op = "update"
    /\ log.before.state = "vulnerable" /\ ghosts[Chaser].state = "vulnerable"
    /\ log.before.current_mode = "chase" /\ ghosts[Chaser].current_mode = "chase"

\* C38: an update of the vulnerable chaser in chase mode, whatever the draw
\* of the A* gating, does not take a step that brings it closer to the
\* player when a step in some unobstructed direction would take it farther
\* away
C38_VulnerableChaserFlees ==
    ( /\ VulnerableChase
      /\ \E d \in FleeFree :
             DistSq(StepOf(log.before, d), player.position)
                 > DistSq(log.before.position, player.position) ) =>
        DistSq(ghosts[Chaser].position, player.position)
            >= DistSq(log.before.position, player.position)

\* C38, the ticks on which A* steering is selected: the vulnerable chaser
\* does not take the direction of the cached path towards the player
C38_NotAlongPath ==
    ( /\ VulnerableChase
      /\ log.periodic
      /\ \E d \in FleeFree :
             DistSq(StepOf(log.before, d), player.position)
                 > DistSq(log.before.position, player.position) ) =>
        DistSq(StepOf(log.before, ghosts[Chaser].direction), player.position)
            >= DistSq(log.before.position, player.position)

----------------------------------------------------------------------------
(* Spawn positions *)

\* the pixel-space centre of the grid cell the file of the maze configures
\* for the name
ConfiguredCentre(name) ==
    << Px(map.original_map_path.spawn_positions[name][1] * map.cell_size
              + map.cell_size \div 2),
       Px(map.original_map_path.spawn_positions[name][2] * map.cell_size
              + map.cell_size \div 2) >>

\* C32: get_spawn_position(name) is, for a name of the maze's spawn set, the
\* pixel-space centre of the grid cell configured for it, and for an absent
\* name a position at which neither a player nor a ghost overlaps a wall
C32_SpawnPosition ==
    \A name \in SpawnNames :
        IF name \in DOMAIN map.spawn_positions
        THEN get_spawn_position(map, name) = ConfiguredCentre(name)
        ELSE \A kind \in {"player", "ghost"} :
                 is_valid_position(map, get_spawn_position(map, name), base_sprite_size, kind)

\* C32, the names of the spawn set alone
C32_ConfiguredSpawn ==
    \A name \in SpawnNames \cap DOMAIN map.spawn_positions :
        get_spawn_position(map, name) = ConfiguredCentre(name)

----------------------------------------------------------------------------
(* The map editor (map_editor.py): its grid, metadata and current file are *)
(* followed in log, the one file it writes is availableMaps, and map is    *)
(* the game's Map object reading that file.                                *)

\* the editor's grid, scaled down from 35 x 25
GRID_WIDTH == 3

GRID_HEIGHT == 2

\* the clicks and metadata edits followed in one run
MaxEdits == 2

PLAYER_SPAWN == 4

GHOST_RED == 5

GHOST_PINK == 6

GHOST_CYAN == 7

GHOST_ORANGE == 8

SpawnTypes == {PLAYER_SPAWN, GHOST_RED, GHOST_PINK, GHOST_CYAN, GHOST_ORANGE}

\* spawn_map of load_map, in the order in which the dictionary is walked
SpawnOrder == << "player", "ghost_red", "ghost_pink", "ghost_cyan", "ghost_orange" >>

\* the cell code of a named spawn
SpawnType(name) ==
    CASE name = "player" -> PLAYER_SPAWN
      [] name = "ghost_red" -> GHOST_RED
      [] name = "ghost_pink" -> GHOST_PINK
      [] name = "ghost_cyan" -> GHOST_CYAN
      [] OTHER -> GHOST_ORANGE

\* the grid coordinates (x, y) of the editor, 0-based
GridCells == (0..(GRID_WIDTH - 1)) \X (0..(GRID_HEIGHT - 1))

\* MapEditor.is_valid_cell
is_valid_cell(x, y) == 0 <= x /\ x < GRID_WIDTH /\ 0 <= y /\ y < GRID_HEIGHT

\* the grid of MapEditor.__init__, new_map and clear_map
EmptyGrid == [y \in 1..GRID_HEIGHT |-> [x \in 1..GRID_WIDTH |-> EMPTY]]

\* MapEditor.clear_spawn_type
clear_spawn_type(grid, spawn_type) ==
    [y \in 1..GRID_HEIGHT |->
        [x \in 1..GRID_WIDTH |->
            IF grid[y][x] = spawn_type THEN EMPTY ELSE grid[y][x]]]

\* MapEditor.handle_click on the cell (x, y) under the pointer: the grid
\* afterwards
handle_click(grid, x, y, selected_type, button) ==
    IF ~is_valid_cell(x, y) THEN grid
    ELSE IF button = 1
    THEN [(IF selected_type \in SpawnTypes THEN clear_spawn_type(grid, selected_type)
           ELSE grid) EXCEPT ![y + 1][x + 1] = selected_type]
    ELSE IF button = 3 THEN [grid EXCEPT ![y + 1][x + 1] = EMPTY]
    ELSE grid

\* the cells of the grid that hold the code t
CellsOf(grid, t) == {c \in GridCells : grid[c[2] + 1][c[1] + 1] = t}

\* the spawns that the validation of save_map finds missing
MissingSpawns(grid) == {n \in SpawnNames : CellsOf(grid, SpawnType(n)) = {}}

\* the scan of save_map for spawn points: rows from the top, each from the
\* left, a later cell of the same code replacing an earlier one
ScanSpawn(grid, t) ==
    CHOOSE c \in CellsOf(grid, t) :
        \A d \in CellsOf(grid, t) : d[2] * GRID_WIDTH + d[1] <= c[2] * GRID_WIDTH + c[1]

\* the same scan keeping x and y in the other order
save_map_transposed(grid, metadata) ==
    [layout |-> [y \in 1..GRID_HEIGHT |->
                    [x \in 1..GRID_WIDTH |->
                        IF grid[y][x] \in SpawnTypes THEN EMPTY ELSE grid[y][x]]],
     difficulty |-> metadata.difficulty,
     spawn_positions |->
         [n \in SpawnNames \ MissingSpawns(grid) |->
             << ScanSpawn(grid, SpawnType(n))[2], ScanSpawn(grid, SpawnType(n))[1] >>]]

\* MapEditor.save_map past its validation and its dialogs: the map_data
\* written to the file (of the metadata, the difficulty)
MapEditor_save_map(grid, metadata) ==
    [layout |-> [y \in 1..GRID_HEIGHT |->
                    [x \in 1..GRID_WIDTH |->
                        IF grid[y][x] \in SpawnTypes THEN EMPTY ELSE grid[y][x]]],
     difficulty |-> metadata.difficulty,
     spawn_positions |->
         [n \in SpawnNames \ MissingSpawns(grid) |-> ScanSpawn(grid, SpawnType(n))]]

\* the layout of a file copied into a cleared grid, cut to the grid's size
LayoutToGrid(layout) ==
    [y \in 1..GRID_HEIGHT |->
        [x \in 1..GRID_WIDTH |->
            IF y <= Len(layout) /\ x <= Len(layout[y]) THEN layout[y][x] ELSE EMPTY]]

\* the loop of load_map over spawn_map from its i-th entry on
RECURSIVE PlaceSpawns(_, _, _)
PlaceSpawns(grid, spawns, i) ==
    IF i > Len(SpawnOrder) THEN grid
    ELSE IF SpawnOrder[i] \in DOMAIN spawns
            /\ is_valid_cell(spawns[SpawnOrder[i]][1], spawns[SpawnOrder[i]][2])
    THEN PlaceSpawns([grid EXCEPT ![spawns[SpawnOrder[i]][2] + 1][spawns[SpawnOrder[i]][1] + 1] =
                          SpawnType(SpawnOrder[i])], spawns, i + 1)
    ELSE PlaceSpawns(grid, spawns, i + 1)

\* MapEditor.load_map on the chosen file: the grid and the metadata afterwards
MapEditor_load_map(file) ==
    [grid |-> PlaceSpawns(LayoutToGrid(file.layout), file.spawn_positions, 1),
     difficulty |-> IF "difficulty" \in DOMAIN file THEN file.difficulty ELSE 50]

\* the cell codes of the grid in reading order
GridOf(codes) ==
    [y \in 1..GRID_HEIGHT |-> [x \in 1..GRID_WIDTH |-> codes[(y - 1) * GRID_WIDTH + x]]]

\* a sequence of six codes turned by k places
Turned(codes, k) == [i \in 1..Len(codes) |-> codes[((i - 1 + k) % Len(codes)) + 1]]

\* grids drawn in the editor before the run starts: the five spawns in
\* either order with a sixth cell of each game code, turned through the
\* grid; and the grid of a new editor
EditorGrids ==
    { GridOf(Turned(<<PLAYER_SPAWN, GHOST_RED, GHOST_PINK, GHOST_CYAN, GHOST_ORANGE, c>>, k)) :
          c \in {EMPTY, WALL, PELLET, POWER_UP}, k \in 0..5 }
    \cup { GridOf(Turned(<<GHOST_ORANGE, GHOST_CYAN, GHOST_PINK, GHOST_RED, PLAYER_SPAWN, c>>, k)) :
          c \in {WALL, PELLET}, k \in {0, 3} }
    \cup { EmptyGrid }

\* the cell types selected for a left click
ClickTypes == {WALL, POWER_UP, PLAYER_SPAWN, GHOST_ORANGE}

\* the difficulties entered in the metadata dialog
EditorDifficulties == {0, 200}

\* nothing written yet
NoSnapshot == [grid |-> << >>, difficulty |-> 0]

\* MapEditor.__init__, with a maze already drawn; the game is as in InitMaze
InitEditor ==
    /\ availableMaps = << >>
    /\ gstate = "MENU"
    /\ mapIndex = 0
    /\ campaignTotal = 0
    /\ map = MapFromFile(NoFile)
    /\ player = InitPlayer(map)
    /\ ghosts = InitGhosts(map)
    /\ pellets = get_pellets(map)
    /\ inputActive = FALSE
    /\ showSave = FALSE
    /\ \E g \in EditorGrids :
           log = [op |-> "init", grid |-> g, difficulty |-> 200, current_file |-> FALSE,
                  saved |-> NoSnapshot]
    /\ ticks = 0

\* a mouse button pressed over the cell (x, y), or outside the grid
EditorClick(x, y, selected_type, button) ==
    /\ ticks < MaxEdits
    /\ ticks' = ticks + 1
    /\ log' = [log EXCEPT !.op = "handle_click",
                          !.grid = handle_click(log.grid, x, y, selected_type, button)]
    /\ UNCHANGED <<gstate, availableMaps, mapIndex, campaignTotal, map, player, ghosts,
                   pellets, inputActive, showSave>>

\* MapEditor.edit_metadata with the difficulty d entered
EditorMetadata(d) ==
    /\ ticks < MaxEdits
    /\ ticks' = ticks + 1
    /\ log' = [log EXCEPT !.op = "edit_metadata", !.difficulty = d]
    /\ UNCHANGED <<gstate, availableMaps, mapIndex, campaignTotal, map, player, ghosts,
                   pellets, inputActive, showSave>>

\* MapEditor.save_map: refused while a spawn is missing, given up when the
\* dialog is cancelled (named = FALSE), and otherwise written to the file
EditorSave(named) ==
    /\ IF MissingSpawns(log.grid) /= {}
       THEN /\ log' = [log EXCEPT !.op = "save_refused"]
            /\ UNCHANGED availableMaps
       ELSE IF ~named
       THEN /\ log' = [log EXCEPT !.op = "save_cancelled"]
            /\ UNCHANGED availableMaps
       ELSE /\ availableMaps' = << MapEditor_save_map(log.grid, [difficulty |-> log.difficulty]) >>
            /\ log' = [log EXCEPT !.op = "save_map", !.current_file = TRUE,
                                  !.saved = [grid |-> log.grid, difficulty |-> log.difficulty]]
    /\ UNCHANGED <<gstate, mapIndex, campaignTotal, map, player, ghosts, pellets,
                   inputActive, showSave, ticks>>

\* MapEditor.load_map with the written file chosen
EditorLoad ==
    /\ availableMaps /= << >>
    /\ log' = [log EXCEPT !.op = "load_map",
                          !.grid = MapEditor_load_map(availableMaps[1]).grid,
                          !.difficulty = MapEditor_load_map(availableMaps[1]).difficulty,
                          !.current_file = TRUE]
    /\ UNCHANGED <<gstate, availableMaps, mapIndex, campaignTotal, map, player, ghosts,
                   pellets, inputActive, showSave, ticks>>

\* the game started on the written file: Map(map_file_path = file)
EditorGameLoad ==
    /\ availableMaps /= << >>
    /\ \E m \in {MapFromFile(availableMaps[1])} :
           /\ map' = m
           /\ player' = InitPlayer(m)
           /\ ghosts' = InitGhosts(m)
           /\ pellets' = get_pellets(m)
    /\ log' = [log EXCEPT !.op = "initialize_game"]
    /\ UNCHANGED <<gstate, availableMaps, mapIndex, campaignTotal, inputActive, showSave, ticks>>

NextEditor ==
    \/ \E c \in GridCells \cup {<<GRID_WIDTH, 0>>} : \E t \in ClickTypes :
           EditorClick(c[1], c[2], t, 1)
    \/ \E c \in GridCells : EditorClick(c[1], c[2], EMPTY, 3)
    \/ \E d \in EditorDifficulties : EditorMetadata(d)
    \/ \E named \in BOOLEAN : EditorSave(named)
    \/ EditorLoad
    \/ EditorGameLoad

SpecEditor == InitEditor /\ [][NextEditor]_vars

\* the grid with its spawn cells emptied
WithoutSpawns(grid) ==
    [y \in 1..GRID_HEIGHT |->
        [x \in 1..GRID_WIDTH |-> IF grid[y][x] \in SpawnTypes THEN EMPTY ELSE grid[y][x]]]

\* C31: whenever the editor has just loaded the file it wrote, its grid has
\* the cell codes and its metadata the difficulty that it had when it wrote
\* the file, each of the five spawns on the cell it was on; and whenever the
\* game has just loaded that file, the Map's layout is that grid with the
\* spawn cells empty, its difficulty is that difficulty, and each of the
\* five spawn positions is the centre of the cell that held its code.
C31_SaveLoadRoundTrip ==
    /\ log.op = "load_map" =>
           /\ log.grid = log.saved.grid
           /\ log.difficulty = log.saved.difficulty
           /\ \A n \in SpawnNames : CellsOf(log.grid, SpawnType(n)) = CellsOf(log.saved.grid, SpawnType(n))
    /\ log.op = "initialize_game" =>
           /\ map.layout = WithoutSpawns(log.saved.grid)
           /\ map.difficulty = log.saved.difficulty
           /\ DOMAIN map.spawn_positions = SpawnNames
           /\ \A n \in SpawnNames :
                  CellsOf(log.saved.grid, SpawnType(n)) =
                      {c \in GridCells : CellCentre(map, c[1], c[2]) = map.spawn_positions[n]}

\* the editor reads back a maze with a wall and a changed difficulty
C31_Witness ==
    /\ log.op = "load_map"
    /\ MissingSpawns(log.saved.grid) = {}
    /\ CellsOf(log.saved.grid, WALL) /= {}
    /\ log.saved.difficulty = 0
    /\ log.grid = log.saved.grid

\* the game reads a maze that was edited after it was first written
C31_WitnessGame ==
    /\ log.op = "initialize_game"
    /\ MissingSpawns(log.saved.grid) = {}
    /\ log.saved.grid \notin EditorGrids
    /\ CellsOf(log.saved.grid, POWER_UP) /= {}
    /\ map.layout = WithoutSpawns(log.saved.grid)

====
